---- MODULE Spec2Model ----
(***************************************************************************)
(* Topic splitting of bundled review / exam PDFs                           *)
(* (scripts/split_and_ocr.py, scripts/split_exam.py,                       *)
(* scripts/extract_topics.py, scripts/split_600.py).                       *)
(*                                                                         *)
(* A document is a sequence of pages.  A page is what the code reads of    *)
(* its text:                                                               *)
(*   chars : len(text.strip())                                             *)
(*   sig   : the collapsed text holds the secondary-source signature       *)
(*           ('아이리포' and one of '대비', '기술사회')                        *)
(*   ents  : the lines of the text that are not empty, in line order,      *)
(*           each with its 0-based line index li, but for the text after   *)
(*           the last of them: a line that is not listed is empty, and     *)
(*           when chars is more than the listed lines hold, the text ends  *)
(*           with one more line, of as many characters that no pattern     *)
(*           matches as chars asks for.                                    *)
(* A line (entry) holds, after the two white-space characters it begins    *)
(* with when ind is set,                                                   *)
(*   item   'N. title'                                                     *)
(*   numdot 'N. '                                                          *)
(*   qcard  '문제 N. title'           the card-format question line         *)
(*   sel    '다음 문제 중 k문제를 선택하시오'   the listing marker             *)
(*   label  a keyword and no other word of the code: kw = "intent"         *)
(*          ('출제의도'), "approach" ('작성방안'), "other" ('Keyword'),      *)
(*          "subject" ('관리')                                             *)
(*   card   the card header line '출제영역 .. 난이도 ★'                      *)
(*   je     '제N. title'                                                    *)
(*   qword  '문 제'                                                         *)
(*   munje  '문제'                                                          *)
(*   num2   'NN', a number written with two digits                         *)
(*   gyosi  'N교시'                                                         *)
(*   beon   'M번'                                                           *)
(*   text   characters that no pattern of the code matches                 *)
(* and w is the number of its characters, the white space it begins with   *)
(* included.  A title is a few words in Latin letters and is known by its  *)
(* prefix identity tp: the first five characters of the title once         *)
(* bracketed qualifiers are stripped; tp = 0 is the empty prefix (a title  *)
(* that is nothing but a bracketed qualifier), tp = -1 the placeholder     *)
(* the code writes for a question without a title, tp = -2 a title that    *)
(* is the text of another line.                                            *)
(* Page and line indices are 0-based, as in the code.                      *)
(***************************************************************************)
EXTENDS Integers, Sequences, FiniteSets, TLC

VARIABLES
    mode,        \* the entry point that runs: "fb" find_boundaries(doc, problems),
                 \* "review" split_and_ocr.run_pipeline on one document,
                 \* "topics" extract_topics.find_topic_boundaries, "batch" and
                 \* "topics_batch" the batch loops of these two scripts,
                 \* "listing" one listing strategy; of split_exam: "exam"
                 \* find_sessions or scan_dongkihoe_all, "exam_fb"
                 \* find_boundaries(doc, problems, sess, source), "exam_run"
                 \* run_pipeline on one pdf, "exam_batch" run_pipeline
                 \* over the pdfs; "books_batch" split_600.run_pipeline
    doc,         \* the source document (the file at pdf['path'])
    cur,         \* the document object the caller holds (doc, or the truncated fb_doc)
    fmt,         \* run_pipeline's local fmt ("none" before detect_format)
    problems,    \* the listing: sequence of [num, tp]
    sess,        \* split_exam: the session scope [session, start, end]
    sessions,    \* split_exam: the list find_sessions builds
    source,      \* split_exam: pdf['source'], the source argument of find_sessions
                 \* and find_boundaries: "KPC", "ITPE", "dongkihoe" ('동기회'),
                 \* "UNKNOWN"; "none" where split_exam does not run
    si,          \* split_exam.run_pipeline: 1-based position in sessions (in the
                 \* sorted session numbers for 동기회) of the session being processed
    boundaries,  \* find_boundaries' local list; in split_600 the questions
                 \* find_questions returned
    pos,         \* scan cursor <<page index, entry index>>
    pc,          \* control point
    failed,      \* run_pipeline's failed list (reasons)
    results,     \* records returned by split_pdf
    calls,       \* the functions run_pipeline has called for the document
    batch,       \* pdfs: the documents of the run, each [pages, ok] with ok
                 \* FALSE when fitz.open(pdf['path']) raises; in split_exam
                 \* with source and file_session too
    idx,         \* 1-based position in pdfs of the document being processed
    opts,        \* [dry_run, do_ocr]
    all_results, \* run_pipeline's all_results: [src, rec] per record
    failed_pdf,  \* the 'pdf' fields of the failed list (failed holds 'error')
    handles,     \* the handles fitz.open returned that are not closed yet
    ocr,         \* the OCR loop: next record k, the state of apply_ocr, how
                 \* the last run ended, tmp_out exists; in extract_topics
                 \* the topic k and page pg of the tesseract run, the runs o
                 \* made for topic k and the runs log made for the document
    disk,        \* what the file at results[k]['path'] holds: "split" or "ocr"
    tot,         \* [topics, ocr]: total_topics and total_ocr
    inventory    \* extract_topics.process_all: [pdf, topics_found] per document

\* the state of the batch that the steps of one document leave alone
bvars == <<batch, idx, opts, all_results, ocr, disk, tot, inventory>>

vars ==
    <<mode, source, si, doc, cur, fmt, problems, sess, sessions, boundaries, pos, pc, failed,
      results, calls, bvars, failed_pdf, handles>>

\* ---------------------------------------------------------------- bounds
MaxPages == 3

\* ------------------------------------------------------- program constants
MinPageChars == 30
CtxWindow == 8
NearTopLines == 10
IntentScore == 10
TopScore == 3
TitleScore == 5
MinScore == 3

Nums == {1, 2}

Min(a, b) == IF a < b THEN a ELSE b

\* min(S) of a set of integers that is not empty
Min_of(S) == CHOOSE x \in S : \A y \in S : x <= y

Range(s) == {s[i] : i \in 1..Len(s)}

\* max(S, default=0) of a set of naturals
MaxOf(S) == IF S = {} THEN 0 ELSE CHOOSE x \in S : \A y \in S : y <= x

\* ---------------------------------------------------------- text of a page
\* characters of the number n as the text writes it
Digits(n) == IF n < 10 THEN 1 ELSE 2

\* characters of a line as the pages below write it: titles of 11
\* characters, the keyword alone on a label line
LineChars(kind, num, kw) ==
    IF kind = "item" THEN Digits(num) + 13
    ELSE IF kind = "numdot" THEN Digits(num) + 2
    ELSE IF kind = "qcard" THEN Digits(num) + 16
    ELSE IF kind = "sel" THEN 18
    ELSE IF kind = "label" THEN (IF kw = "other" THEN 7 ELSE IF kw = "subject" THEN 2 ELSE 4)
    ELSE IF kind = "card" THEN 13
    ELSE IF kind = "je" THEN Digits(num) + 14
    ELSE IF kind = "gyosi" THEN 3
    ELSE IF kind = "beon" THEN Digits(num) + 1
    ELSE IF kind \in {"munje", "num2"} THEN 2
    ELSE 3

\* A line of a page: its index li, what it is (kind), its number and title
\* (num, tp), the keyword it carries (kw), whether it begins with white space
\* (ind), whether its title has three characters or fewer (short) and the
\* number of its characters (w).
Ent(li, kind, num, tp, kw) ==
    [li |-> li, kind |-> kind, num |-> num, tp |-> tp, kw |-> kw,
     ind |-> FALSE, short |-> FALSE, w |-> LineChars(kind, num, kw)]

\* 'N. title'
Item(li, n, t) == Ent(li, "item", n, t, "none")

\* '  N. title': a line that begins with white space. Every loop that reads
\* lines strips them first; the count of detect_format and the patterns that
\* are matched on the text of the page do not
Indented(e) == [e EXCEPT !.ind = TRUE, !.w = @ + 2]

\* 'N. (a)': an enumerated line whose title has three characters, none of
\* them left once the bracketed part is removed
ShortItem(li, n) == [Item(li, n, 0) EXCEPT !.short = TRUE, !.w = Digits(n) + 5]

\* 'N. ': a number, the dot and white space with no title; stripped, the line
\* is 'N.' and no loop takes it for an enumerated line
NumDot(li, n) == Ent(li, "numdot", n, 0, "none")

QCard(li, n, t) == Ent(li, "qcard", n, t, "none")

Sel(li) == Ent(li, "sel", 0, 0, "none")

\* a line with a keyword: "intent" is '출제의도', "approach" is '작성방안',
\* "other" is 'Keyword' (one of the words both bare scans look for) and
\* "subject" is '관리' (a word only extract_topics' bare scan looks for)
Label(li, k) == Ent(li, "label", 0, 0, k)

CardHdr(li) == Ent(li, "card", 0, 0, "other")

QWord(li) == Ent(li, "qword", 0, 0, "none")

\* '문제' on a line of its own
Munje(li) == Ent(li, "munje", 0, 0, "none")

\* 'NN' on a line of its own: '01' is the number 1
Num2(li, n) == Ent(li, "num2", n, 0, "none")

\* a line of w characters that no pattern matches
Text(li, w) == [Ent(li, "text", 0, 0, "none") EXCEPT !.w = w]

Page(chars, sig, ents) == [chars |-> chars, sig |-> sig, ents |-> ents]

\* len(text.strip()) of the listed lines alone: their characters and the line
\* breaks between the first and the last, less the white space the first
\* begins with and the space a last 'N. ' ends with
listed_chars(p) ==
    LET es == p.ents
        n == Len(es)
        width_sum[k \in 0..n] == IF k = 0 THEN 0 ELSE es[k].w + width_sum[k - 1]
    IN  IF n = 0 THEN 0
        ELSE width_sum[n] + (es[n].li - es[1].li)
             - (IF es[1].ind THEN 2 ELSE 0)
             - (IF es[n].kind = "numdot" THEN 1 ELSE 0)

\* the text goes on after the last listed line
has_filler(p) == p.chars > listed_chars(p)

\* '다음 문제 중' in text (also: '문제중' and '선택' in the collapsed text)
HasSelect(p) == \E i \in 1..Len(p.ents) : p.ents[i].kind = "sel"

\* '출제영역' and '난이도' in the collapsed text and '★' in the text
HasCard(p) == \E i \in 1..Len(p.ents) : p.ents[i].kind = "card"

\* '출제의도' or '작성방안' in the collapsed text
HasIntentOrApproach(p) ==
    \E i \in 1..Len(p.ents) : p.ents[i].kw \in {"intent", "approach"}

\* re.findall(r'^(\d{1,2})\.\s+', p1, re.MULTILINE): the text is not stripped
\* and no title is asked for, so 'N. ' counts and '  N. title' does not
nums_found(p) ==
    Cardinality({i \in 1..Len(p.ents) :
                    p.ents[i].kind \in {"item", "numdot"} /\ ~p.ents[i].ind})

RECURSIVE total_text(_, _)
total_text(d, n) == IF n = 0 THEN 0 ELSE d[n].chars + total_text(d, n - 1)

\* ------------------------------------------------------------ detect_format
\* Variant: the card format is looked for before the page count
detect_format_card_first(d) ==
    IF Len(d) = 0 THEN "bare"
    ELSE IF HasCard(d[1]) THEN "menti"
    ELSE IF Len(d) = 1 THEN "problem_only"
    ELSE IF total_text(d, Min(5, Len(d))) < 200 /\ Len(d) > 3 THEN "sparse"
    ELSE IF HasSelect(d[1])
            /\ \E pi \in 2..(Min(6, Len(d)) - 1) : d[pi + 1].sig THEN "merged"
    ELSE IF HasSelect(d[1]) THEN
        IF nums_found(d[1]) >= 4 THEN "standard"
        ELSE IF HasIntentOrApproach(d[1]) THEN "inline"
        ELSE "standard"
    ELSE "bare"

\* Variant: the card format is looked for before the merged document
detect_format_card_before_merged(d) ==
    IF Len(d) = 0 THEN "bare"
    ELSE IF Len(d) = 1 THEN "problem_only"
    ELSE IF total_text(d, Min(5, Len(d))) < 200 /\ Len(d) > 3 THEN "sparse"
    ELSE IF HasCard(d[1]) THEN "menti"
    ELSE IF HasSelect(d[1])
            /\ \E pi \in 2..(Min(6, Len(d)) - 1) : d[pi + 1].sig THEN "merged"
    ELSE IF HasSelect(d[1]) THEN
        IF nums_found(d[1]) >= 4 THEN "standard"
        ELSE IF HasIntentOrApproach(d[1]) THEN "inline"
        ELSE "standard"
    ELSE "bare"

\* Variant: the intent/approach marker is looked for before the count
detect_format_marker_first(d) ==
    IF Len(d) = 0 THEN "bare"
    ELSE IF Len(d) = 1 THEN "problem_only"
    ELSE IF total_text(d, Min(5, Len(d))) < 200 /\ Len(d) > 3 THEN "sparse"
    ELSE IF HasSelect(d[1])
            /\ \E pi \in 2..(Min(6, Len(d)) - 1) : d[pi + 1].sig THEN "merged"
    ELSE IF HasCard(d[1]) THEN "menti"
    ELSE IF HasSelect(d[1]) THEN
        IF HasIntentOrApproach(d[1]) THEN "inline" ELSE "standard"
    ELSE "bare"

detect_format(d) ==
    IF Len(d) = 0 THEN "bare"
    ELSE IF Len(d) = 1 THEN "problem_only"
    ELSE IF total_text(d, Min(5, Len(d))) < 200 /\ Len(d) > 3 THEN "sparse"
    ELSE IF HasSelect(d[1])
            /\ \E pi \in 2..(Min(6, Len(d)) - 1) : d[pi + 1].sig THEN "merged"
    ELSE IF HasCard(d[1]) THEN "menti"
    ELSE IF HasSelect(d[1]) THEN
        IF nums_found(d[1]) >= 4 THEN "standard"
        ELSE IF HasIntentOrApproach(d[1]) THEN "inline"
        ELSE "standard"
    ELSE "bare"

\* ---------------------------------------------------------- find_boundaries
pnums(probs) == {probs[i].num : i \in 1..Len(probs)}

\* {p[0]: p[1] for p in problems}: the last entry of a number wins; 0 stands
\* for a number the dict does not hold (only read for members of pnums)
ptitles(probs) ==
    [n \in pnums(probs) |->
        LET last == CHOOSE i \in 1..Len(probs) :
                        /\ probs[i].num = n
                        /\ \A j \in (i + 1)..Len(probs) : probs[j].num # n
        IN  probs[last].tp]

\* Variant: the scan reads page 0 whatever the format
scan_start_zero(f) == 0

\* Variant: the scan skips page 0 whatever the format
scan_start_one(f) == 1

\* First page the scan reads: 0 if fmt in ('inline', 'bare') else 1
scan_start(f) == IF f \in {"inline", "bare"} THEN 0 ELSE 1

\* The next line at or after entry ei of page pi that the scan's regex
\* matches, pages with less than 30 characters skipped; <<Len(d), 1>> when
\* the loops are exhausted.
RECURSIVE next_cand(_, _, _)
next_cand(d, pi, ei) ==
    IF pi >= Len(d) THEN <<Len(d), 1>>
    ELSE IF d[pi + 1].chars < MinPageChars \/ ei > Len(d[pi + 1].ents)
        THEN next_cand(d, pi + 1, 1)
    ELSE IF d[pi + 1].ents[ei].kind = "item" THEN <<pi, ei>>
    ELSE next_cand(d, pi, ei + 1)

\* any(kw in ctx ...) with ctx = lines[li : min(li+8, len(lines))]
has_intent(p, li) ==
    \E i \in 1..Len(p.ents) :
        /\ p.ents[i].li >= li
        /\ p.ents[i].li < li + CtxWindow
        /\ p.ents[i].kw \in {"intent", "approach"}

\* Variant: line 10 still counts as near the top
near_top_le(li) == li <= NearTopLines

near_top(li) == li < NearTopLines

\* (clean_exp[:5] == clean_fnd[:5]) if clean_exp else False
title_match(expected, found) == expected # 0 /\ expected = found

score_of(p, e, expected) ==
    (IF has_intent(p, e.li) THEN IntentScore ELSE 0)
    + (IF near_top(e.li) THEN TopScore ELSE 0)
    + (IF title_match(expected, e.tp) THEN TitleScore ELSE 0)

\* Variant: a candidate of equal score replaces the kept one
replaces_ge(score, existing_score) == score >= existing_score

\* "기존보다 높은 점수만 교체": does the new candidate replace the kept one
replaces(score, existing_score) == score > existing_score

accepts(score) == score >= MinScore

\* Variant: the replaced boundary is left in the list
scan_step_keep(bs, d, probs, pi, ei) ==
    LET p == d[pi + 1]
        e == p.ents[ei]
    IN  IF e.num \notin pnums(probs) THEN bs
        ELSE
        LET score == score_of(p, e, ptitles(probs)[e.num])
            existing == SelectSeq(bs, LAMBDA b : b.num = e.num)
            new == [num |-> e.num, title |-> ptitles(probs)[e.num],
                    page_idx |-> pi, line_idx |-> e.li,
                    has_intent |-> has_intent(p, e.li), score |-> score,
                    page_end |-> -1]
        IN  IF existing # <<>> /\ ~replaces(score, existing[1].score) THEN bs
            ELSE IF accepts(score) THEN Append(bs, new)
            ELSE bs

\* The body of the line loop for one matching line (entry ei of page pi).
scan_step(bs, d, probs, pi, ei) ==
    LET p == d[pi + 1]
        e == p.ents[ei]
    IN  IF e.num \notin pnums(probs) THEN bs
        ELSE
        LET score == score_of(p, e, ptitles(probs)[e.num])
            existing == SelectSeq(bs, LAMBDA b : b.num = e.num)
            kept == IF existing # <<>> THEN SelectSeq(bs, LAMBDA b : b.num # e.num)
                    ELSE bs
            new == [num |-> e.num, title |-> ptitles(probs)[e.num],
                    page_idx |-> pi, line_idx |-> e.li,
                    has_intent |-> has_intent(p, e.li), score |-> score,
                    page_end |-> -1]
        IN  IF existing # <<>> /\ ~replaces(score, existing[1].score) THEN bs
            ELSE IF accepts(score) THEN Append(kept, new)
            ELSE kept

\* Stable insertion sort of s by the integer key k[x] (Python's sorted)
RECURSIVE insert_by(_, _, _)
insert_by(s, x, k) ==
    IF s = <<>> THEN <<x>>
    ELSE IF k[Head(s)] <= k[x] THEN <<Head(s)>> \o insert_by(Tail(s), x, k)
    ELSE <<x>> \o s

RECURSIVE sorted_by(_, _)
sorted_by(s, k) ==
    IF s = <<>> THEN <<>>
    ELSE insert_by(sorted_by(SubSeq(s, 1, Len(s) - 1), k), s[Len(s)], k)

\* key (num, -score): the tuple order, as one integer whose radix is above
\* every score of the list
key_num_score(bs) ==
    LET top == MaxOf({b.score : b \in Range(bs)})
    IN  [b \in Range(bs) |-> b.num * (top + 1) + (top - b.score)]

\* key (page_idx, line_idx): the tuple order, as one integer whose radix is
\* above every line index of the list
key_position(bs) ==
    LET top == MaxOf({b.line_idx : b \in Range(bs)})
    IN  [b \in Range(bs) |-> b.page_idx * (top + 1) + b.line_idx]

\* Variant: the final sort by position is left out
dedupe_by_num(bs) ==
    LET byNum == sorted_by(bs, key_num_score(bs))
    IN  SelectSeq(byNum, LAMBDA b :
            \A i \in 1..Len(byNum) :
                byNum[i].num = b.num => byNum[i].score <= b.score)

\* "중복 제거 & 정렬": the first boundary of each number in (num, -score)
\* order, then sorted by (page_idx, line_idx)
dedupe_sort(bs) ==
    LET byNum == sorted_by(bs, key_num_score(bs))
        firsts == {i \in 1..Len(byNum) :
                      \A j \in 1..(i - 1) : byNum[j].num # byNum[i].num}
        RECURSIVE pick(_)
        pick(i) == IF i > Len(byNum) THEN <<>>
                   ELSE (IF i \in firsts THEN <<byNum[i]>> ELSE <<>>) \o pick(i + 1)
        seen == pick(1)
    IN  sorted_by(seen, key_position(seen))

\* Variant: the boundary ends on the next boundary's page
raw_page_end_next(n, bs, i) ==
    IF i + 1 <= Len(bs) THEN bs[i + 1].page_idx ELSE n - 1

\* The end page before the trim: the page before the next boundary's, or the
\* next boundary's own page when both start on one page; the last page for
\* the last boundary.
raw_page_end(n, bs, i) ==
    IF i + 1 <= Len(bs)
    THEN (IF bs[i + 1].page_idx > bs[i].page_idx
          THEN bs[i + 1].page_idx - 1 ELSE bs[i + 1].page_idx)
    ELSE n - 1

\* Variant: a listing page is dropped even when it is the start page
trimmed_end_unguarded(d, start, end) ==
    IF end < Len(d) /\ HasSelect(d[end + 1]) THEN end - 1 ELSE end

\* Variant: the end page is dropped whatever its text
trimmed_end_always(d, start, end) == IF end > start THEN end - 1 ELSE end

\* Variant: the trim step runs a second time on the page it arrived at
trimmed_end_twice(d, start, end) ==
    LET once == IF end < Len(d) /\ HasSelect(d[end + 1]) /\ end > start
                THEN end - 1 ELSE end
    IN  IF once < Len(d) /\ HasSelect(d[once + 1]) /\ once > start
        THEN once - 1 ELSE once

\* "끝 페이지가 문제지 재등장이면 제외"
trimmed_end(d, start, end) ==
    IF end < Len(d) /\ HasSelect(d[end + 1]) /\ end > start THEN end - 1 ELSE end

_set_page_ends(d, bs) ==
    [i \in 1..Len(bs) |->
        [bs[i] EXCEPT !.page_end =
            trimmed_end(d, bs[i].page_idx, raw_page_end(Len(d), bs, i))]]

\* key (page_idx, num): the tuple order, as one integer whose radix is above
\* every number of the list
key_page_num(bs) ==
    LET top == MaxOf({b.num : b \in Range(bs)})
    IN  [b \in Range(bs) |-> b.page_idx * (top + 1) + b.num]

\* Variant: every element is kept
every_per_num(acc, s) == acc \o s

\* The elements of s whose number no earlier element has
RECURSIVE first_per_num(_, _)
first_per_num(acc, s) ==
    IF s = <<>> THEN acc
    ELSE first_per_num(
            IF \E i \in 1..Len(acc) : acc[i].num = Head(s).num
            THEN acc ELSE Append(acc, Head(s)),
            Tail(s))

\* 문\s*제\s+(\d{1,2})\.\s+ matches at line i: a card question, or '문 제'
\* ('문제') with a number and a dot at the start of the next line that is not
\* empty
card_start(es, i) ==
    \/ es[i].kind = "qcard"
    \/ /\ es[i].kind \in {"qword", "munje"}
       /\ i < Len(es)
       /\ es[i + 1].kind \in {"item", "numdot"}

\* the line the number of the match at line i is on
card_num_line(es, i) == IF es[i].kind = "qcard" THEN i ELSE i + 1

\* the line the title of the match begins on: the line of the number, or the
\* next text when nothing follows the dot (Len(es) + 1: the text after the
\* last listed line)
card_title_line(es, i) ==
    IF es[card_num_line(es, i)].kind = "numdot" THEN i + 2 ELSE card_num_line(es, i)

\* a title that is not the title of a line but text that follows a number
\* (m.group(2).strip().split('\n')[0] of a match whose number ends its line)
OtherText == -2

\* num and title of the match at line i
card_match(es, i) ==
    [num |-> es[card_num_line(es, i)].num,
     tp |-> IF es[card_num_line(es, i)].kind = "numdot" THEN OtherText
            ELSE es[card_num_line(es, i)].tp]

\* the matches of 문\s*제\s+(\d{1,2})\.\s+ among the lines es of page pi
cards_on(es, pi) ==
    LET q == SelectSeq([i \in 1..Len(es) |-> i], LAMBDA i : card_start(es, i))
    IN  [k \in 1..Len(q) |->
           [num |-> card_match(es, q[k]).num, tp |-> card_match(es, q[k]).tp,
            page_idx |-> pi]]

RECURSIVE qcards_from(_, _)
qcards_from(d, pi) ==
    IF pi >= Len(d) THEN <<>>
    ELSE (IF d[pi + 1].chars = 0 THEN <<>> ELSE cards_on(d[pi + 1].ents, pi))
         \o qcards_from(d, pi + 1)

\* Card format: every "문제 N." match, the first per number kept, whether or
\* not N is in the listing; title ptitles.get(num, "문제N") (-1: the placeholder)
_boundaries_menti(d, probs) ==
    LET found == first_per_num(<<>>, qcards_from(d, 0))
        bs == [i \in 1..Len(found) |->
                 [num |-> found[i].num,
                  title |-> IF found[i].num \in pnums(probs)
                            THEN ptitles(probs)[found[i].num] ELSE -1,
                  page_idx |-> found[i].page_idx, line_idx |-> 0,
                  has_intent |-> TRUE, score |-> 15, page_end |-> -1]]
    IN  _set_page_ends(d, sorted_by(bs, key_page_num(bs)))

\* ------------------------------------------------------------ get_problem_list
Prob(n, t) == [num |-> n, tp |-> t]

as_problems(es) == [i \in 1..Len(es) |-> Prob(es[i].num, es[i].tp)]

sel_indices(p) == {i \in 1..Len(p.ents) : p.ents[i].kind = "sel"}

first_index(S) == CHOOSE i \in S : \A j \in S : i <= j

\* One page of _problems_standard: the "N. title" lines after the select line
items_after_select(p) ==
    IF sel_indices(p) = {} THEN <<>>
    ELSE SelectSeq(SubSeq(p.ents, first_index(sel_indices(p)) + 1, Len(p.ents)),
                   LAMBDA e : e.kind = "item")

_problems_standard(d) ==
    IF Len(d) >= 1 /\ items_after_select(d[1]) # <<>>
        THEN as_problems(items_after_select(d[1]))
    ELSE IF Len(d) >= 2 /\ items_after_select(d[2]) # <<>>
        THEN as_problems(items_after_select(d[2]))
    ELSE <<>>

\* bare: first 8 lines of every page with 30 characters or more, a title of
\* more than 3 characters, a keyword in the 8-line window, the first
\* occurrence of a number kept, sorted by number.
\* any(kw in ctx for kw in ['출제의도', '작성방안', '회 ', 'Keyword', '출제빈도',
\* '출제배경', '풀이', '난이도']): the list of split_and_ocr
bare_keyword(p, li) ==
    \E i \in 1..Len(p.ents) :
        /\ p.ents[i].li >= li
        /\ p.ents[i].li < li + 8
        /\ p.ents[i].kw \notin {"none", "subject"}

\* the list of extract_topics, which has '관리' and '응용' as well
is_topic_start(p, li) ==
    \E i \in 1..Len(p.ents) :
        /\ p.ents[i].li >= li
        /\ p.ents[i].li < li + 8
        /\ p.ents[i].kw # "none"

RECURSIVE bare_cands(_, _)
bare_cands(d, pi) ==
    IF pi >= Len(d) THEN <<>>
    ELSE (IF d[pi + 1].chars < 30 THEN <<>>
          ELSE SelectSeq(d[pi + 1].ents,
                  LAMBDA e : e.kind = "item" /\ e.li < 8 /\ ~e.short
                             /\ bare_keyword(d[pi + 1], e.li)))
         \o bare_cands(d, pi + 1)

\* the lines _extract_bare_problems of extract_topics takes
RECURSIVE topic_cands(_, _)
topic_cands(d, pi) ==
    IF pi >= Len(d) THEN <<>>
    ELSE (IF d[pi + 1].chars < 30 THEN <<>>
          ELSE SelectSeq(d[pi + 1].ents,
                  LAMBDA e : e.kind = "item" /\ e.li < 8 /\ ~e.short
                             /\ is_topic_start(d[pi + 1], e.li)))
         \o topic_cands(d, pi + 1)

key_num(ps) == [x \in Range(ps) |-> x.num]

_problems_bare(d) ==
    LET ps == as_problems(first_per_num(<<>>, bare_cands(d, 0)))
    IN  sorted_by(ps, key_num(ps))

\* Variant: every numbered line of the window is taken
consecutive_any(acc, s) == acc \o s

\* inline: page 0, between the select line and the first 출제의도 line, each
\* number the previous one + 1
RECURSIVE consecutive(_, _)
consecutive(acc, s) ==
    IF s = <<>> THEN acc
    ELSE consecutive(
            IF acc = <<>> \/ Head(s).num = acc[Len(acc)].num + 1
            THEN Append(acc, Head(s)) ELSE acc,
            Tail(s))

inline_window(p) ==
    IF sel_indices(p) = {} THEN <<>>
    ELSE LET a == first_index(sel_indices(p))
             stops == {i \in (a + 1)..Len(p.ents) : p.ents[i].kw = "intent"}
             z == IF stops = {} THEN Len(p.ents) ELSE first_index(stops) - 1
         IN  SelectSeq(SubSeq(p.ents, a + 1, z), LAMBDA e : e.kind = "item")

_problems_inline(d) ==
    LET ps == as_problems(consecutive(<<>>, inline_window(d[1])))
    IN  IF ps # <<>> THEN ps ELSE _problems_bare(d)

\* card: the matches of  문\s*제\s+(\d{1,2})\.\s+(.+?)(?=\n출\s*제|$)  on the
\* text of one page (the second pattern of the loop finds a match only where
\* the first does, and is tried only when the first found none).
\* The match ends before a line break that '출제' follows: a card header or
\* an 출제의도 line that does not begin with white space
starts_chulje(e) == (e.kind = "card" \/ e.kw = "intent") /\ ~e.ind

\* (.+?) asks for a character after the white space that follows the dot:
\* the title on the number's line, or a later line of the page
titled_start(p, i) ==
    /\ card_start(p.ents, i)
    /\ \/ card_title_line(p.ents, i) <= Len(p.ents)
       \/ has_filler(p)

\* The matches of one page from line i on, open telling that line i lies
\* inside a match.  A match runs on to the next line after its title's that
\* starts with 출제 or to the end of the page, and no match begins inside
\* it.  A card line holds number and title; after '문 제' they are on the
\* lines that follow.
RECURSIVE menti_matches(_, _, _)
menti_matches(p, i, open) ==
    IF i > Len(p.ents) THEN <<>>
    ELSE IF open THEN menti_matches(p, i + 1, ~starts_chulje(p.ents[i]))
    ELSE IF p.ents[i].kind = "qcard"
         THEN <<[num |-> p.ents[i].num, tp |-> p.ents[i].tp]>>
              \o menti_matches(p, i + 1, TRUE)
    ELSE IF p.ents[i].kind \in {"qword", "munje"} /\ titled_start(p, i)
         THEN <<card_match(p.ents, i)>>
              \o menti_matches(p, card_title_line(p.ents, i) + 1, TRUE)
    ELSE menti_matches(p, i + 1, FALSE)

RECURSIVE menti_listed(_, _)
menti_listed(d, pi) ==
    IF pi >= Len(d) THEN <<>>
    ELSE (IF d[pi + 1].chars = 0 THEN <<>> ELSE menti_matches(d[pi + 1], 1, FALSE))
         \o menti_listed(d, pi + 1)

\* the first match of each number kept, sorted by number
_problems_menti(d) ==
    LET ps == as_problems(first_per_num(<<>>, menti_listed(d, 0)))
    IN  sorted_by(ps, key_num(ps))

get_problem_list(d) ==
    LET f == detect_format(d)
    IN  IF f = "standard" THEN _problems_standard(d)
        ELSE IF f = "inline" THEN _problems_inline(d)
        ELSE IF f = "menti" THEN _problems_menti(d)
        ELSE _problems_bare(d)

\* ------------------------------------------- find_boundaries as one function
\* the page and line loops from cursor p on, candidates bs so far
RECURSIVE scan_from(_, _, _, _)
scan_from(bs, d, probs, p) ==
    IF p[1] >= Len(d) THEN bs
    ELSE scan_from(scan_step(bs, d, probs, p[1], p[2]), d, probs,
                   next_cand(d, p[1], p[2] + 1))

\* find_boundaries(doc, problems): the value it returns
find_boundaries(d, probs) ==
    IF detect_format(d) = "menti" THEN _boundaries_menti(d, probs)
    ELSE _set_page_ends(d, dedupe_sort(
            scan_from(<<>>, d, probs, next_cand(d, scan_start(detect_format(d)), 1))))

\* ------------------------------------------------------------------ split_pdf
\* One record per boundary with start_p <= end_p; from_page and to_page are
\* the pages of the source that insert_pdf copies into the topic's file.
image_pages(d, a, b) == Cardinality({pi \in a..b : d[pi + 1].chars < 50})

split_pdf(d, bs) ==
    LET ok == SelectSeq(bs, LAMBDA b : b.page_idx <= Min(b.page_end, Len(d) - 1))
    IN  [i \in 1..Len(ok) |->
            LET start_p == ok[i].page_idx
                end_p == Min(ok[i].page_end, Len(d) - 1)
            IN  [q_num |-> ok[i].num, q_title |-> ok[i].title,
                 from_page |-> start_p, to_page |-> end_p,
                 pages |-> end_p - start_p + 1,
                 image_pages |-> image_pages(d, start_p, end_p),
                 needs_ocr |-> image_pages(d, start_p, end_p) > 0]]

\* --------------------------------------------------------------- run_pipeline
\* The first page from index 2 on with the secondary-source signature
merge_page(d) ==
    LET hits == {mpi \in 2..(Len(d) - 1) : d[mpi + 1].sig}
    IN  IF hits = {} THEN Len(d) ELSE first_index(hits)

\* Variant: a two-page primary part is accepted
too_short_lt(mp) == mp < 2

\* merge_page <= 2: the primary part is too short
too_short(mp) == mp <= 2

\* Variant: the primary part is not cut out
fb_doc_whole(d) == d

\* fb_doc.insert_pdf(doc, from_page=0, to_page=merge_page - 1)
fb_doc(d) == SubSeq(d, 1, merge_page(d))

\* ------------------------------------------- split_exam: find_boundaries (KPC)
FirstSessionCount == 13

OtherSessionCount == 6

expected_nums(s) ==
    IF s.session = 1 THEN 1..FirstSessionCount ELSE 1..OtherSessionCount

\* Variant: the listing is searched as it was extracted
complete_listing_as_is(probs, s) == probs

\* The listing with (n, 'Qn') appended for every expected number it lacks,
\* sorted by number (title -1: the placeholder)
complete_listing(probs, s) ==
    LET missing == {n \in expected_nums(s) : n \notin pnums(probs)}
        RECURSIVE added(_)
        added(n) == IF n > FirstSessionCount THEN <<>>
                    ELSE (IF n \in missing THEN <<Prob(n, -1)>> ELSE <<>>)
                         \o added(n + 1)
        all == probs \o added(1)
    IN  sorted_by(all, key_num(all))

\* '문' and '제' in the up to five lines before line li
mun_je_before(p, li) ==
    \E i \in 1..Len(p.ents) :
        /\ p.ents[i].li < li
        /\ p.ents[i].li >= li - 5
        /\ p.ents[i].kind \in {"qword", "munje", "sel", "qcard"}

\* Pattern 1 "제N. title", or pattern 2 "N. title" after a 문/제 line, in the
\* first 20 lines of the page
kpc_match(p, e) ==
    /\ e.li < 20
    /\ \/ e.kind = "je"
       \/ e.kind = "item" /\ mun_je_before(p, e.li)

\* The next matching line at or after entry ei of page pi, within pages
\* ..last; <<last + 1, 1>> when the loops are exhausted
RECURSIVE next_kcand(_, _, _, _)
next_kcand(d, pi, ei, last) ==
    IF pi > last \/ pi >= Len(d) THEN <<last + 1, 1>>
    ELSE IF ei > Len(d[pi + 1].ents) THEN next_kcand(d, pi + 1, 1, last)
    ELSE IF kpc_match(d[pi + 1], d[pi + 1].ents[ei]) THEN <<pi, ei>>
    ELSE next_kcand(d, pi, ei + 1, last)

\* The body of _bounds_kpc's line loop for one matching line
kpc_step(bs, probs, pi, e) ==
    IF e.num \notin pnums(probs) THEN bs
    ELSE IF \E i \in 1..Len(bs) : bs[i].num = e.num THEN bs
    ELSE Append(bs, [num |-> e.num, title |-> ptitles(probs)[e.num],
                     page_idx |-> pi, score |-> 15, page_end |-> -1])

key_page(bs) == [b \in Range(bs) |-> b.page_idx]

\* Variant: entries with page_end < page_idx stay
_assign_boundary_ends_keep(bs, session_end) ==
    [i \in 1..Len(bs) |->
        [bs[i] EXCEPT !.page_end =
            IF i + 1 <= Len(bs) THEN bs[i + 1].page_idx - 1 ELSE session_end]]

\* end = the page before the next boundary's page, the session's end for the
\* last; entries with page_end < page_idx are removed
_assign_boundary_ends(bs, session_end) ==
    LET ended == [i \in 1..Len(bs) |->
                    [bs[i] EXCEPT !.page_end =
                        IF i + 1 <= Len(bs) THEN bs[i + 1].page_idx - 1
                        ELSE session_end]]
    IN  SelectSeq(ended, LAMBDA b : b.page_end >= b.page_idx)

\* ------------------------------------------------- split_exam: _bounds_itpe
\* len(l.strip()) of line e
stripped_chars(e) ==
    e.w - (IF e.ind THEN 2 ELSE 0) - (IF e.kind = "numdot" THEN 1 ELSE 0)

\* the line after the last listed line, where the text goes on: the
\* characters that are left of chars once the listed lines, the line break
\* and the space a last 'N. ' ends with are taken
filler_chars(p) ==
    IF ~has_filler(p) THEN 0
    ELSE IF p.ents = <<>> THEN p.chars
    ELSE p.chars - listed_chars(p) - 1
         - (IF p.ents[Len(p.ents)].kind = "numdot" THEN 1 ELSE 0)

\* 'NN' in the first 10 lines, a number of the listing, and '문제' alone on
\* one of the four lines that follow
itpe_match(p, e, probs) ==
    /\ e.kind = "num2"
    /\ e.li < 10
    /\ e.num \in pnums(probs)
    /\ \E x \in Range(p.ents) : x.kind = "munje" /\ x.li > e.li /\ x.li <= e.li + 4

\* best: the last matching line of the page (its position in ents; 0: none)
itpe_best(p, probs) ==
    MaxOf({i \in 1..Len(p.ents) : itpe_match(p, p.ents[i], probs)})

\* the first of the three lines after line e with more than 3 characters
\* ('문제' has two): the text of a line, never a title of the listing
\* (OtherText); '' (0) when there is none
itpe_title(p, e) ==
    IF \/ \E x \in Range(p.ents) :
             x.li > e.li /\ x.li <= e.li + 3 /\ stripped_chars(x) > 3
       \/ /\ filler_chars(p) > 3
          /\ p.ents[Len(p.ents)].li + 1 <= e.li + 3
    THEN OtherText ELSE 0

\* The next page at or after pi, within pages ..last, with a matching line;
\* last + 1 when the loop is exhausted
RECURSIVE next_icand(_, _, _, _)
next_icand(d, pi, last, probs) ==
    IF pi > last \/ pi >= Len(d) THEN last + 1
    ELSE IF itpe_best(d[pi + 1], probs) # 0 THEN pi
    ELSE next_icand(d, pi + 1, last, probs)

\* The body of _bounds_itpe's page loop for a page with a matching line:
\* the boundary is appended whatever numbers the list holds
itpe_step(bs, p, pi, probs) ==
    LET e == p.ents[itpe_best(p, probs)]
    IN  Append(bs, [num |-> e.num, title |-> itpe_title(p, e), page_idx |-> pi,
                    score |-> 15, page_end |-> -1])

\* 13 if sess['session'] == 1 else 6
expected_count(s) == IF s.session = 1 THEN FirstSessionCount ELSE OtherSessionCount

\* Variant: the numbers stay as the page loop read them
renumber_or_dedupe_neither(bs, probs, s) == bs

\* Post-process: as many boundaries as the session has questions are
\* numbered 1.. in page order, with the listing's title where it has the
\* number; of fewer or more, the first of each number is kept
renumber_or_dedupe(bs, probs, s) ==
    IF Len(bs) = expected_count(s)
    THEN [i \in 1..Len(bs) |->
            [bs[i] EXCEPT !.num = i,
                          !.title = IF i \in pnums(probs) THEN ptitles(probs)[i] ELSE @]]
    ELSE first_per_num(<<>>, bs)

\* def _bounds_dongkihoe: a stub
_bounds_dongkihoe == <<>>

\* ---- what find_boundaries returns, the loops run to their end
\* the line loop of _bounds_kpc from the matching line at p on
RECURSIVE kpc_scan(_, _, _, _, _)
kpc_scan(bs, d, probs, p, last) ==
    IF p[1] > last THEN bs
    ELSE kpc_scan(kpc_step(bs, probs, p[1], d[p[1] + 1].ents[p[2]]), d, probs,
                  next_kcand(d, p[1], p[2] + 1, last), last)

_bounds_kpc(d, probs, s) ==
    LET bs == kpc_scan(<<>>, d, probs, next_kcand(d, s.start + 1, 1, s.end), s.end)
    IN  _assign_boundary_ends(sorted_by(bs, key_page(bs)), s.end)

\* the page loop of _bounds_itpe from the matching page pi on
RECURSIVE itpe_scan(_, _, _, _, _)
itpe_scan(bs, d, probs, pi, last) ==
    IF pi > last THEN bs
    ELSE itpe_scan(itpe_step(bs, d[pi + 1], pi, probs), d, probs,
                   next_icand(d, pi + 1, last, probs), last)

_bounds_itpe(d, probs, s) ==
    LET bs == itpe_scan(<<>>, d, probs, next_icand(d, s.start + 1, s.end, probs), s.end)
    IN  _assign_boundary_ends(
            renumber_or_dedupe(sorted_by(bs, key_page(bs)), probs, s), s.end)

\* split_exam.find_boundaries(doc, problems, sess, source)
exam_find_boundaries(d, probs, s, src) ==
    IF src = "KPC" THEN _bounds_kpc(d, complete_listing(probs, s), s)
    ELSE IF src = "ITPE" THEN _bounds_itpe(d, complete_listing(probs, s), s)
    ELSE IF src = "dongkihoe" THEN _bounds_dongkihoe
    ELSE <<>>

\* ---------------------------------------- split_exam: extract_problem_list
\* the 'N. title' lines after the select line of the session's start page,
\* each with a title of more than one character
extract_session_list(d, s) == as_problems(items_after_select(d[s.start + 1]))

\* run_pipeline: the listing of the session, 'Qn' for each of its numbers
\* when the start page lists nothing
default_listing(s) == [n \in 1..expected_count(s) |-> Prob(n, -1)]

session_listing(d, s) ==
    IF extract_session_list(d, s) # <<>> THEN extract_session_list(d, s)
    ELSE default_listing(s)

\* ------------------------------------- extract_topics: find_topic_boundaries
\* Titles are identified by their first five characters once bracketed parts
\* are removed (0: nothing is left).  title_words(t) are the words longer than
\* two characters among the first three words of title t; in the titles of
\* the model a word occurs in a title exactly when it is one of its words.
title_words(t) ==
    CASE t = 1 -> {"alpha", "topic"}
      [] t = 2 -> {"bravo", "topic"}
      [] t = 3 -> {"charlie", "plan"}
      [] OTHER -> {}

detect_pdf_format(d) ==
    IF Len(d) = 0 THEN "bare"
    ELSE IF HasCard(d[1]) THEN "menti"
    ELSE IF HasSelect(d[1]) THEN
        IF HasIntentOrApproach(d[1]) THEN "inline" ELSE "standard"
    ELSE "bare"

\* clean_expected[:5] == clean_found[:5], or one of the listing title's words
\* is in the found title (every listing title is a non-empty string)
topic_title_match(expected, found) ==
    \/ expected = found
    \/ title_words(expected) \cap title_words(found) # {}

topic_score(p, e, expected) ==
    (IF has_intent(p, e.li) THEN IntentScore ELSE 0)
    + (IF near_top(e.li) THEN TopScore ELSE 0)
    + (IF topic_title_match(expected, e.tp) THEN TitleScore ELSE 0)

\* The body of the line loop for one matching line (entry ei of page pi)
topic_step(bs, d, probs, pi, ei) ==
    LET p == d[pi + 1]
        e == p.ents[ei]
    IN  IF e.num \notin pnums(probs) THEN bs
        ELSE
        LET score == topic_score(p, e, ptitles(probs)[e.num])
            existing == SelectSeq(bs, LAMBDA b : b.num = e.num)
            kept == IF existing # <<>> THEN SelectSeq(bs, LAMBDA b : b.num # e.num)
                    ELSE bs
            new == [num |-> e.num, title |-> ptitles(probs)[e.num],
                    page_idx |-> pi, line_idx |-> e.li,
                    has_intent |-> has_intent(p, e.li),
                    is_near_top |-> near_top(e.li), score |-> score,
                    page_end |-> -1]
        IN  IF existing # <<>> /\ ~replaces(score, existing[1].score) THEN bs
            ELSE IF accepts(score) THEN Append(kept, new)
            ELSE kept

_assign_page_ends(d, bs) ==
    [i \in 1..Len(bs) |->
        LET end == IF i + 1 <= Len(bs)
                   THEN (IF bs[i + 1].page_idx > bs[i].page_idx
                         THEN bs[i + 1].page_idx - 1 ELSE bs[i + 1].page_idx)
                   ELSE Len(d) - 1
        IN  [bs[i] EXCEPT !.page_end =
                IF end < Len(d) /\ HasSelect(d[end + 1]) /\ end > bs[i].page_idx
                THEN end - 1 ELSE end]]

\* The "문제 N. title" lines of pages pi.. in page and line order, blank pages
\* skipped (a line "제 N. title" under a line "문" is not among the lines of
\* the model)
RECURSIVE card_lines_from(_, _)
card_lines_from(d, pi) ==
    IF pi >= Len(d) THEN <<>>
    ELSE (IF d[pi + 1].chars = 0 THEN <<>>
          ELSE LET q == SelectSeq(d[pi + 1].ents, LAMBDA e : e.kind = "qcard")
               IN  [i \in 1..Len(q) |->
                      [num |-> q[i].num, tp |-> q[i].tp, page_idx |-> pi,
                       line_idx |-> q[i].li]])
         \o card_lines_from(d, pi + 1)

\* Card format: the first line of each number, title
\* problem_titles.get(num, title_text)
_find_menti_boundaries(d, probs) ==
    LET found == first_per_num(<<>>, card_lines_from(d, 0))
        bs == [i \in 1..Len(found) |->
                 [num |-> found[i].num,
                  title |-> IF found[i].num \in pnums(probs)
                            THEN ptitles(probs)[found[i].num] ELSE found[i].tp,
                  page_idx |-> found[i].page_idx, line_idx |-> found[i].line_idx,
                  has_intent |-> TRUE, is_near_top |-> TRUE, score |-> 15,
                  page_end |-> -1]]
    IN  _assign_page_ends(d, sorted_by(bs, key_position(bs)))

\* ------------------------------------------------------------ input domains
FillPage == Page(250, FALSE, <<>>)

SelPage == Page(250, FALSE, <<Sel(0)>>)

ShortPage == Page(28, FALSE, <<Item(0, 1, 1), Label(1, "intent")>>)

InlineFront ==
    Page(250, FALSE, <<Sel(0), Item(1, 1, 1), Item(2, 2, 2), Label(3, "intent")>>)

\* one topic start on the page
StrongPage(n) == Page(250, FALSE, <<Item(0, n, n), Label(1, "intent")>>)

TitleOnlyPage(n) == Page(250, FALSE, <<Item(10, n, n)>>)

NoSignalPage == Page(250, FALSE, <<Item(10, 1, 0)>>)

TopOnlyPage == Page(250, FALSE, <<Item(2, 1, 0), Label(10, "approach")>>)

\* two topic starts on one page
TwoTopics == Page(250, FALSE, <<Item(0, 1, 1), Item(3, 2, 2), Label(9, "intent")>>)

TwoReversed == Page(250, FALSE, <<Item(0, 2, 0), Item(10, 1, 0), Label(12, "intent")>>)

SameTwice == Page(250, FALSE, <<Item(0, 1, 0), Item(9, 1, 1)>>)

FBPages ==
    {FillPage, SelPage, ShortPage, InlineFront, NoSignalPage, TopOnlyPage,
     TwoTopics, TwoReversed, SameTwice}
    \cup {StrongPage(n) : n \in Nums} \cup {TitleOnlyPage(n) : n \in Nums}

SeqsUpTo(S, n) == UNION {[1..k -> S] : k \in 1..n}

FBDocs == SeqsUpTo(FBPages, MaxPages)

FBListings ==
    { <<Prob(1, 1), Prob(2, 2)>>, <<Prob(1, 1)>>, <<Prob(1, 0), Prob(2, 2)>> }

\* the 10-page document with topics 1, 2, 3 starting on pages 0, 4, 7
ExampleDoc ==
    <<StrongPage(1), FillPage, FillPage, FillPage, StrongPage(2), FillPage,
      FillPage, StrongPage(3), FillPage, FillPage>>

ExampleListing == <<Prob(1, 1), Prob(2, 2), Prob(3, 3)>>

\* documents of extract_topics.find_topic_boundaries
\* number 1 under title 2, which shares a word with title 1
SharedWordPage == Page(250, FALSE, <<Item(10, 1, 2)>>)

\* number 1 under title 3, which shares no word with titles 1 and 2
OtherTitlePage == Page(250, FALSE, <<Item(10, 1, 3)>>)

CardPage == Page(250, FALSE, <<QCard(0, 1, 1), CardHdr(1), QCard(6, 2, 2), CardHdr(7)>>)

TBPages ==
    {FillPage, SelPage, InlineFront, NoSignalPage, SharedWordPage,
     OtherTitlePage, TwoTopics, SameTwice, CardPage, StrongPage(2),
     TitleOnlyPage(1)}

TBDocs == SeqsUpTo(TBPages, MaxPages)

\* documents of the review pipeline
ListPage == Page(250, FALSE, <<Sel(0), Item(1, 1, 1), Item(2, 2, 2)>>)

SigPage == Page(250, TRUE, <<>>)

BlankPage == Page(0, FALSE, <<>>)

ThinPage == Page(40, FALSE, <<Item(0, 1, 1), Label(1, "intent")>>)

CardFront == Page(250, FALSE, <<QCard(0, 1, 1), CardHdr(1), QCard(6, 2, 2), CardHdr(7)>>)

RVPages ==
    {ListPage, InlineFront, SigPage, BlankPage, ThinPage, CardFront}
    \cup {StrongPage(n) : n \in Nums}

RVDocs == SeqsUpTo(RVPages, MaxPages + 1)

\* a first page with the select marker and the card markers
CardListPage == Page(250, FALSE, <<Sel(0), QCard(1, 1, 1), CardHdr(2)>>)

\* a first page with the select marker and hardly any other text
SelThin == Page(30, FALSE, <<Sel(0)>>)

\* a first page with the select marker, four enumerated lines and a label
FullListPage ==
    Page(250, FALSE, <<Sel(0), Item(1, 1, 1), Item(2, 2, 2), Item(3, 3, 3),
                       Item(4, 4, 1), Label(5, "intent")>>)

\* a first page with the select marker and the intent label, no enumerated
\* line
SelIntent == Page(250, FALSE, <<Sel(0), Label(1, "intent")>>)

\* card 2 runs on over the line of card 1 to the card header
CardRun == Page(250, FALSE, <<QCard(0, 2, 2), QCard(1, 1, 2), CardHdr(2)>>)

\* a first page with the select marker, four numbers without a title and a
\* label: the count of detect_format finds four lines, the listing none
DotListPage ==
    Page(250, FALSE, <<Sel(0), NumDot(1, 1), NumDot(2, 2), NumDot(3, 3),
                       NumDot(4, 4), Label(5, "intent")>>)

\* FullListPage with its enumerated lines indented: the count of
\* detect_format finds none of the four lines of the listing
IndentedListPage ==
    Page(250, FALSE, <<Sel(0), Indented(Item(1, 1, 1)), Indented(Item(2, 2, 2)),
                       Indented(Item(3, 3, 3)), Indented(Item(4, 4, 1)),
                       Label(5, "intent")>>)

\* card 1 with its 출제의도 line indented, then '문 제' and '2. ' on two lines
CardSplitFront ==
    Page(250, FALSE, <<QCard(0, 1, 1), Indented(Label(1, "intent")), QWord(2),
                       NumDot(3, 2), CardHdr(4)>>)

\* longer documents with little text: one of the seven first pages, then
\* signature pages, thin pages and pages without text
RVLongDocs ==
    {<<h>> \o t : h \in {CardListPage, SelThin, FullListPage, SelIntent,
                         DotListPage, IndentedListPage, CardSplitFront},
                  t \in SeqsUpTo({SigPage, ThinPage, BlankPage}, MaxPages + 1)}

\* two topic starts on one page of less than 50 characters
TwoThin ==
    Page(45, FALSE, <<Item(0, 1, 1), Label(1, "intent"), Item(2, 2, 2),
                      Label(3, "intent")>>)

\* the pdfs of a batch: one the library cannot open, and one document for
\* each way an iteration of run_pipeline ends
MaxBatch == 2

BatchPdfs ==
    {[pages |-> <<ListPage, StrongPage(1)>>, ok |-> FALSE]}
    \cup {[pages |-> d, ok |-> TRUE] : d \in
            {<<ListPage>>,
             <<BlankPage, BlankPage, BlankPage, BlankPage>>,
             <<ListPage, StrongPage(1), SigPage>>,
             <<ListPage, StrongPage(1), StrongPage(2), SigPage>>,
             <<BlankPage, BlankPage>>,
             <<ListPage, BlankPage>>,
             <<ListPage, StrongPage(1), BlankPage, StrongPage(2)>>,
             <<CardFront, BlankPage>>}}

Batches == SeqsUpTo(BatchPdfs, MaxBatch)

\* the pdfs of process_all: one the library cannot open, and one document
\* for each way a call of process_single_pdf ends: no listing, no boundary,
\* topics of text pages, a topic with an image page, two topics that start
\* on the same image page, cards
TopicPdfs ==
    {[pages |-> <<ListPage, StrongPage(1)>>, ok |-> FALSE]}
    \cup {[pages |-> d, ok |-> TRUE] : d \in
            {<<BlankPage, BlankPage>>,
             <<ListPage, BlankPage>>,
             <<ListPage, StrongPage(1), StrongPage(2), SigPage>>,
             <<ListPage, StrongPage(1), BlankPage, StrongPage(2)>>,
             <<ListPage, TwoThin, FillPage>>,
             <<CardFront, BlankPage>>}}

TopicBatches == SeqsUpTo(TopicPdfs, MaxBatch)

\* documents of one exam session (KPC)
Je(li, n, t) == Ent(li, "je", n, t, "none")

KQuestion(n) == Page(250, FALSE, <<Je(0, n, n)>>)

KNumbered == Page(250, FALSE, <<QWord(0), Item(2, 2, 2)>>)

KPlain == Page(250, FALSE, <<Item(0, 1, 1)>>)

KTwo == Page(250, FALSE, <<Je(0, 1, 1), Je(8, 2, 2)>>)

KLate == Page(250, FALSE, <<Je(25, 1, 1)>>)

KPages == {FillPage, KNumbered, KPlain, KTwo, KLate} \cup {KQuestion(n) : n \in Nums}

KDocs == SeqsUpTo(KPages, MaxPages)

KListings == { <<>>, <<Prob(1, 1), Prob(2, 2)>> }

\* ------------------------------------- extract_topics: process_single_pdf
\* find_topic_boundaries(doc, problems): the value it returns
find_topic_boundaries(d, probs) ==
    LET RECURSIVE scan(_, _)
        scan(bs, p) ==
            IF p[1] >= Len(d) THEN bs
            ELSE scan(topic_step(bs, d, probs, p[1], p[2]), next_cand(d, p[1], p[2] + 1))
    IN  IF detect_pdf_format(d) = "menti" THEN _find_menti_boundaries(d, probs)
        ELSE _assign_page_ends(d, dedupe_sort(
                scan(<<>>, next_cand(d, scan_start(detect_pdf_format(d)), 1))))

\* extract_problem_list: the variant is detect_pdf_format's. The standard and
\* the card strategy read the pages as those of split_and_ocr do; the bare
\* scan, and so the fallback of the inline strategy, has its own keywords
_extract_bare_problems(d) ==
    LET ps == as_problems(first_per_num(<<>>, topic_cands(d, 0)))
    IN  sorted_by(ps, key_num(ps))

_extract_inline_problems(d) ==
    LET ps == as_problems(consecutive(<<>>, inline_window(d[1])))
    IN  IF ps # <<>> THEN ps ELSE _extract_bare_problems(d)

extract_problem_list(d) ==
    LET f == detect_pdf_format(d)
    IN  IF f = "standard" THEN _problems_standard(d)
        ELSE IF f = "inline" THEN _extract_inline_problems(d)
        ELSE IF f = "menti" THEN _problems_menti(d)
        ELSE _extract_bare_problems(d)

\* how a tesseract run on one page ends: exit 0 with text or with nothing,
\* a non-zero exit with something or nothing on stdout, the timeout, or
\* another exception
OcrPageOutcomes == {"text", "blank", "nonzero_text", "nonzero", "timeout", "exception"}

\* Variant: a timed-out run still hands text on
ocr_page_late(out) == IF out \in {"text", "nonzero_text", "timeout"} THEN "ocr" ELSE ""

\* ocr_page: result.stdout.strip(), whatever the exit code; "" from the
\* except branch
ocr_page(out) == IF out \in {"text", "nonzero_text"} THEN "ocr" ELSE ""

\* the TopicInfo of boundary b; content holds per page of the range what the
\* page adds: "text", "ocr" (an [OCR pN] block) or "" (nothing); o gives, per
\* image page of the range, the end of the tesseract run made for this topic
topic_info(d, b, do_ocr, o) ==
    LET last == Min(b.page_end, Len(d) - 1)
        has_ocr == image_pages(d, b.page_idx, last) > 0
    IN  [q_num |-> b.num, q_title |-> b.title,
         page_start |-> b.page_idx + 1, page_end |-> b.page_end + 1,
         has_ocr_pages |-> has_ocr,
         content |->
            [k \in 1..(last - b.page_idx + 1) |->
                LET pg == d[b.page_idx + k]
                IN  IF do_ocr /\ has_ocr
                    THEN IF pg.chars > 50 THEN "text" ELSE ocr_page(o[b.page_idx + k - 1])
                    ELSE IF pg.chars > 10 THEN "text" ELSE ""]]

\* the pages of boundary b that extract_with_ocr still has to hand to
\* ocr_page, o holding the runs made for the topic so far
ocr_pending(d, b, do_ocr, o) ==
    LET last == Min(b.page_end, Len(d) - 1)
    IN  IF do_ocr /\ image_pages(d, b.page_idx, last) > 0
        THEN {pi \in b.page_idx..last : d[pi + 1].chars <= 50 /\ pi \notin DOMAIN o}
        ELSE {}

\* for b in boundaries, from boundary k on with the list topics so far: the
\* topics that need no tesseract run are appended; k is then the first
\* boundary that waits for a run, Len(bs) + 1 when the loop is over
RECURSIVE topics_from(_, _, _, _, _)
topics_from(d, bs, do_ocr, topics, k) ==
    IF k > Len(bs) \/ ocr_pending(d, bs[k], do_ocr, <<>>) # {}
    THEN [topics |-> topics, k |-> k]
    ELSE topics_from(d, bs, do_ocr,
                     Append(topics, topic_info(d, bs[k], do_ocr, <<>>)), k + 1)

\* ------------------------------------------------------------------ apply_ocr
OcrOutcomes == {"ok", "has_text", "error", "timeout", "exception"}

\* Variant: the temporary output of a timed-out run is left behind
apply_ocr_leaves_tmp(out, tmp, file) ==
    IF out = "ok" /\ tmp THEN [ok |-> TRUE, file |-> "ocr", tmp |-> FALSE]
    ELSE IF out = "has_text" THEN [ok |-> TRUE, file |-> file, tmp |-> FALSE]
    ELSE [ok |-> FALSE, file |-> file, tmp |-> tmp /\ out = "timeout"]

\* What apply_ocr returns (ok), what the file at pdf_path holds after it, and
\* whether tmp_out still exists: shutil.move on exit code 0 with tmp_out
\* written, os.unlink(tmp_out) on every other path.
apply_ocr(out, tmp, file) ==
    IF out = "ok" /\ tmp THEN [ok |-> TRUE, file |-> "ocr", tmp |-> FALSE]
    ELSE IF out = "has_text" THEN [ok |-> TRUE, file |-> file, tmp |-> FALSE]
    ELSE [ok |-> FALSE, file |-> file, tmp |-> FALSE]

\* for r in results: if r['needs_ocr']: the next record from k on to OCR
RECURSIVE next_ocr(_, _)
next_ocr(rs, k) ==
    IF k > Len(rs) THEN k
    ELSE IF rs[k].needs_ocr THEN k
    ELSE next_ocr(rs, k + 1)

\* --------------------------------------------------------------- the machine
\* the OCR loop about to look at record k, apply_ocr not running
NoOcr(k) == [k |-> k, st |-> "idle", out |-> "none", tmp |-> FALSE]

InitCommon ==
    /\ cur = doc
    /\ si = 0
    /\ sessions = <<>>
    /\ fmt = "none"
    /\ boundaries = <<>>
    /\ pos = <<0, 1>>
    /\ failed = <<>>
    /\ results = <<>>
    /\ calls = {}
    /\ all_results = <<>>
    /\ failed_pdf = <<>>
    /\ handles = {}
    /\ ocr = NoOcr(1)
    /\ disk = <<>>
    /\ tot = [topics |-> 0, ocr |-> 0]
    /\ inventory = <<>>

\* no batch: the function is called on its own
NoBatch ==
    /\ batch = <<>>
    /\ idx = 0
    /\ opts = [dry_run |-> FALSE, do_ocr |-> FALSE]

NoSession == [session |-> 0, start |-> 0, end |-> 0]

\* find_boundaries(doc, problems) called on its own
InitFB ==
    /\ mode = "fb"
    /\ source = "none"
    /\ \/ doc \in FBDocs /\ problems \in FBListings
       \/ doc = ExampleDoc /\ problems = ExampleListing
    /\ sess = NoSession
    /\ pc = "fb_call"
    /\ NoBatch
    /\ InitCommon

\* run_pipeline(do_ocr=False, dry_run=False) with one document in the batch
InitReview ==
    /\ mode = "review"
    /\ source = "none"
    /\ doc \in RVDocs \cup RVLongDocs
    /\ problems = <<>>
    /\ sess = NoSession
    /\ pc = "rp_open"
    /\ batch = <<[pages |-> doc, ok |-> TRUE]>>
    /\ idx = 1
    /\ opts = [dry_run |-> FALSE, do_ocr |-> FALSE]
    /\ InitCommon

\* extract_topics.find_topic_boundaries(doc, problems) called on its own
InitTopics ==
    /\ mode = "topics"
    /\ source = "none"
    /\ doc \in TBDocs
    /\ problems \in FBListings
    /\ sess = NoSession
    /\ pc = "tb_call"
    /\ NoBatch
    /\ InitCommon

Init == InitFB \/ InitReview \/ InitTopics

\* ---- split_and_ocr.find_boundaries
\* Variant: the candidates of the call before are kept
FBBegin_keep ==
    /\ pc = "fb_call"
    /\ detect_format(cur) # "menti"
    /\ pos' = next_cand(cur, scan_start(detect_format(cur)), 1)
    /\ pc' = "fb_scan"
    /\ calls' = calls \cup {"find_boundaries"}
    /\ UNCHANGED <<bvars, failed_pdf, handles, mode, source, si, doc, cur, fmt, problems, sess, sessions, boundaries, failed, results>>

\* up to the page loop (any format but the card format)
FBBegin ==
    /\ pc = "fb_call"
    /\ detect_format(cur) # "menti"
    /\ boundaries' = <<>>
    /\ pos' = next_cand(cur, scan_start(detect_format(cur)), 1)
    /\ pc' = "fb_scan"
    /\ calls' = calls \cup {"find_boundaries"}
    /\ UNCHANGED <<bvars, failed_pdf, handles, mode, source, si, doc, cur, fmt, problems, sess, sessions, failed, results>>

\* the card format: _boundaries_menti
FBMenti ==
    /\ pc = "fb_call"
    /\ detect_format(cur) = "menti"
    /\ boundaries' = _boundaries_menti(cur, problems)
    /\ pc' = "fb_ret"
    /\ calls' = calls \cup {"find_boundaries"}
    /\ UNCHANGED <<bvars, failed_pdf, handles, mode, source, si, doc, cur, fmt, problems, sess, sessions, pos, failed, results>>

\* one matching line of the page/line loops
FBScan ==
    /\ pc = "fb_scan"
    /\ pos[1] < Len(cur)
    /\ boundaries' = scan_step(boundaries, cur, problems, pos[1], pos[2])
    /\ pos' = next_cand(cur, pos[1], pos[2] + 1)
    /\ UNCHANGED <<bvars, failed_pdf, handles, mode, source, si, doc, cur, fmt, problems, sess, sessions, pc, failed, results, calls>>

\* after the loops: dedupe, sort, _set_page_ends, return
FBFinish ==
    /\ pc = "fb_scan"
    /\ pos[1] >= Len(cur)
    /\ boundaries' = _set_page_ends(cur, dedupe_sort(boundaries))
    /\ pc' = "fb_ret"
    /\ UNCHANGED <<bvars, failed_pdf, handles, mode, source, si, doc, cur, fmt, problems, sess, sessions, pos, failed, results, calls>>

\* ---- split_and_ocr.run_pipeline, one iteration of the batch loop
InPipeline == mode \in {"review", "batch"}

\* the handle the local doc is bound to: the file's, or fb_doc's after the cut
DocHandle == <<idx, IF cur = doc THEN "doc" ELSE "fb_doc">>

\* Variant: a failure ends the batch
Fail_stop(reason) ==
    /\ failed' = Append(failed, reason)
    /\ failed_pdf' = Append(failed_pdf, idx)
    /\ handles' = handles \ {DocHandle}
    /\ pc' = "end"

\* Variant: the failure branch leaves the document open
Fail_open(reason) ==
    /\ failed' = Append(failed, reason)
    /\ failed_pdf' = Append(failed_pdf, idx)
    /\ handles' = handles
    /\ pc' = "done"

\* failed.append({'pdf': ..., 'error': reason}); doc.close(); continue
Fail(reason) ==
    /\ failed' = Append(failed, reason)
    /\ failed_pdf' = Append(failed_pdf, idx)
    /\ handles' = handles \ {DocHandle}
    /\ pc' = "done"

\* fitz.open(pdf['path']) raises: the failure is recorded, no handle exists
RPOpenFail ==
    /\ pc = "rp_open"
    /\ ~batch[idx].ok
    /\ failed' = Append(failed, "open error")
    /\ failed_pdf' = Append(failed_pdf, idx)
    /\ pc' = "done"
    /\ UNCHANGED <<bvars, handles, mode, source, si, doc, cur, fmt, problems, sess, sessions, boundaries, pos, results, calls>>

\* doc = fitz.open(pdf['path']); fmt = detect_format(doc)
RPDetect ==
    /\ pc = "rp_open"
    /\ batch[idx].ok
    /\ handles' = handles \cup {<<idx, "doc">>}
    /\ fmt' = detect_format(doc)
    /\ pc' = "rp_fmt"
    /\ UNCHANGED <<bvars, failed_pdf, mode, source, si, doc, cur, problems, sess, sessions, boundaries, pos, failed, results, calls>>

RPSparse ==
    /\ pc = "rp_fmt"
    /\ fmt = "sparse"
    /\ Fail("sparse/image-only (needs OCR)")
    /\ UNCHANGED <<bvars, mode, source, si, doc, cur, fmt, problems, sess, sessions, boundaries, pos, results, calls>>

RPProblemOnly ==
    /\ pc = "rp_fmt"
    /\ fmt = "problem_only"
    /\ Fail("problem list only (no answers)")
    /\ UNCHANGED <<bvars, mode, source, si, doc, cur, fmt, problems, sess, sessions, boundaries, pos, results, calls>>

RPMergedShort ==
    /\ pc = "rp_fmt"
    /\ fmt = "merged"
    /\ too_short(merge_page(doc))
    /\ Fail("merged: FB portion too short")
    /\ UNCHANGED <<bvars, mode, source, si, doc, cur, fmt, problems, sess, sessions, boundaries, pos, results, calls>>

\* the primary part cut out as fb_doc, the file's handle closed, and the
\* format of fb_doc detected
RPMergedCut ==
    /\ pc = "rp_fmt"
    /\ fmt = "merged"
    /\ ~too_short(merge_page(doc))
    /\ cur' = fb_doc(doc)
    /\ handles' = (handles \cup {<<idx, "fb_doc">>}) \ {<<idx, "doc">>}
    /\ fmt' = detect_format(cur')
    /\ pc' = "rp_list"
    /\ UNCHANGED <<bvars, failed_pdf, mode, source, si, doc, problems, sess, sessions, boundaries, pos, failed, results, calls>>

AtListing ==
    \/ pc = "rp_list"
    \/ pc = "rp_fmt" /\ fmt \notin {"sparse", "problem_only", "merged"}

RPNoListing ==
    /\ AtListing
    /\ get_problem_list(cur) = <<>>
    /\ problems' = <<>>
    /\ calls' = calls \cup {"get_problem_list"}
    /\ Fail("no problem list")
    /\ UNCHANGED <<bvars, mode, source, si, doc, cur, fmt, sess, sessions, boundaries, pos, results>>

\* the listing is found; find_boundaries is entered next
RPListing ==
    /\ AtListing
    /\ get_problem_list(cur) # <<>>
    /\ problems' = get_problem_list(cur)
    /\ calls' = calls \cup {"get_problem_list"}
    /\ pc' = "fb_call"
    /\ UNCHANGED <<bvars, failed_pdf, handles, mode, source, si, doc, cur, fmt, sess, sessions, boundaries, pos, failed, results>>

RPNoBoundaries ==
    /\ InPipeline
    /\ pc = "fb_ret"
    /\ boundaries = <<>>
    /\ Fail("no boundaries")
    /\ UNCHANGED <<bvars, mode, source, si, doc, cur, fmt, problems, sess, sessions, boundaries, pos, results, calls>>

\* dry_run: doc.close(); total_topics += len(boundaries); continue
RPDryRun ==
    /\ InPipeline
    /\ pc = "fb_ret"
    /\ boundaries # <<>>
    /\ opts.dry_run
    /\ handles' = handles \ {DocHandle}
    /\ tot' = [tot EXCEPT !.topics = @ + Len(boundaries)]
    /\ pc' = "done"
    /\ UNCHANGED <<inventory, batch, idx, opts, all_results, ocr, disk, failed_pdf, mode, source, si, doc, cur, fmt, problems, sess, sessions, boundaries, pos, failed, results, calls>>

\* doc.close(); split_pdf opens the file at pdf['path'] again and writes one
\* file per boundary
RPSplit ==
    /\ InPipeline
    /\ pc = "fb_ret"
    /\ boundaries # <<>>
    /\ ~opts.dry_run
    /\ handles' = (handles \ {DocHandle}) \cup {<<idx, "src">>}
    /\ results' = split_pdf(doc, boundaries)
    /\ disk' = [k \in 1..Len(results') |-> "split"]
    /\ calls' = calls \cup {"split_pdf"}
    /\ pc' = "sp_ret"
    /\ UNCHANGED <<inventory, batch, idx, opts, all_results, ocr, tot, failed_pdf, mode, source, si, doc, cur, fmt, problems, sess, sessions, boundaries, pos, failed>>

\* split_pdf: doc.close(); return results
RPSplitRet ==
    /\ pc = "sp_ret"
    /\ handles' = handles \ {<<idx, "src">>}
    /\ ocr' = NoOcr(1)
    /\ pc' = "rp_ocr"
    /\ UNCHANGED <<inventory, batch, idx, opts, all_results, disk, tot, failed_pdf, mode, source, si, doc, cur, fmt, problems, sess, sessions, boundaries, pos, failed, results, calls>>

\* apply_ocr: subprocess.run(ocrmypdf ... pdf_path tmp_out, timeout=180) ends
\* with exit code 0 ("ok"), 6 ("has_text") or another ("error"), by the
\* timeout, or by another exception; tmp_out exists then or not
OcrRun ==
    /\ pc = "rp_ocr"
    /\ opts.do_ocr
    /\ ocr.st = "idle"
    /\ next_ocr(results, ocr.k) <= Len(results)
    /\ \E out \in OcrOutcomes, tmp \in BOOLEAN :
          ocr' = [k |-> next_ocr(results, ocr.k), st |-> "ran", out |-> out, tmp |-> tmp]
    /\ UNCHANGED <<inventory, batch, idx, opts, all_results, disk, tot, failed_pdf, handles, mode, source, si, doc, cur, fmt, problems, sess, sessions, boundaries, pos, pc, failed, results, calls>>

\* the rest of apply_ocr, then r['ocr_applied'] = ok and total_ocr; out keeps
\* how the run ended
OcrDone ==
    /\ pc = "rp_ocr"
    /\ ocr.st = "ran"
    /\ LET r == apply_ocr(ocr.out, ocr.tmp, disk[ocr.k])
       IN  /\ disk' = [disk EXCEPT ![ocr.k] = r.file]
           /\ results' = [results EXCEPT ![ocr.k] = ("ocr_applied" :> r.ok) @@ @]
           /\ tot' = [tot EXCEPT !.ocr = IF r.ok THEN @ + 1 ELSE @]
           /\ ocr' = [k |-> ocr.k + 1, st |-> "idle", out |-> ocr.out, tmp |-> r.tmp]
    /\ UNCHANGED <<inventory, batch, idx, opts, all_results, failed_pdf, handles, mode, source, si, doc, cur, fmt, problems, sess, sessions, boundaries, pos, pc, failed, calls>>

\* all_results.extend(results); total_topics += len(results)
RPExtend ==
    /\ pc = "rp_ocr"
    /\ ocr.st = "idle"
    /\ ~opts.do_ocr \/ next_ocr(results, ocr.k) > Len(results)
    /\ all_results' = all_results \o [k \in 1..Len(results) |-> [src |-> idx, rec |-> results[k]]]
    /\ tot' = [tot EXCEPT !.topics = @ + Len(results)]
    /\ pc' = "done"
    /\ UNCHANGED <<inventory, batch, idx, opts, ocr, disk, failed_pdf, handles, mode, source, si, doc, cur, fmt, problems, sess, sessions, boundaries, pos, failed, results, calls>>

\* the for statement takes the next pdf (the three run_pipeline, process_all); the
\* locals of the loop keep their values, those of the process_single_pdf
\* call that has returned (the tesseract runs of its topic loop) are gone
RPNextDoc ==
    /\ mode \in {"batch", "topics_batch", "exam_batch", "books_batch"}
    /\ pc = "done"
    /\ idx < Len(batch)
    /\ idx' = idx + 1
    /\ doc' = batch[idx + 1].pages
    /\ cur' = doc'
    /\ source' = IF mode = "exam_batch" THEN batch[idx + 1].source ELSE source
    /\ calls' = {}
    /\ pc' = IF mode = "batch" THEN "rp_open"
             ELSE IF mode = "topics_batch" THEN "et_open"
             ELSE IF mode = "exam_batch" THEN "xr_open" ELSE "bk_open"
    /\ ocr' = IF mode = "topics_batch" THEN NoOcr(1) ELSE ocr
    /\ UNCHANGED <<inventory, batch, opts, all_results, disk, tot, failed_pdf, handles, mode, si, fmt, problems, sess, sessions, boundaries, pos, failed, results>>

\* ---- extract_topics.process_all: process_single_pdf per document, then
\* all_topics.extend(topics) and inventory.append(inv)
Inventoried(n) == inventory' = Append(inventory, [pdf |-> idx, topics_found |-> n])

\* fitz.open raises: the error is printed and [] returned
ETOpenFail ==
    /\ pc = "et_open"
    /\ ~batch[idx].ok
    /\ Inventoried(0)
    /\ pc' = "done"
    /\ UNCHANGED <<batch, idx, opts, all_results, ocr, disk, tot, failed_pdf, handles, mode, source, si, doc, cur, fmt, problems, sess, sessions, boundaries, pos, failed, results, calls>>

\* no listing: a warning is printed, the handle closed and [] returned
ETNoProblems ==
    /\ pc = "et_open"
    /\ batch[idx].ok
    /\ extract_problem_list(doc) = <<>>
    /\ problems' = <<>>
    /\ Inventoried(0)
    /\ pc' = "done"
    /\ UNCHANGED <<batch, idx, opts, all_results, ocr, disk, tot, failed_pdf, handles, mode, source, si, doc, cur, fmt, sess, sessions, boundaries, pos, failed, results, calls>>

\* the document opened and its listing found; find_topic_boundaries is next
ETOpen ==
    /\ pc = "et_open"
    /\ batch[idx].ok
    /\ extract_problem_list(doc) # <<>>
    /\ handles' = handles \cup {<<idx, "doc">>}
    /\ problems' = extract_problem_list(doc)
    /\ pc' = "tb_call"
    /\ UNCHANGED <<bvars, failed_pdf, mode, source, si, doc, cur, fmt, sess, sessions, boundaries, pos, failed, results, calls>>

\* no boundary: a warning is printed, the handle closed and [] returned
ETNoBoundaries ==
    /\ mode = "topics_batch"
    /\ pc = "tb_ret"
    /\ boundaries = <<>>
    /\ handles' = handles \ {<<idx, "doc">>}
    /\ Inventoried(0)
    /\ pc' = "done"
    /\ UNCHANGED <<batch, idx, opts, all_results, ocr, disk, tot, failed_pdf, mode, source, si, doc, cur, fmt, problems, sess, sessions, boundaries, pos, failed, results, calls>>

\* The topic loop of process_single_pdf from boundary k on, topics being the
\* list so far, o the tesseract runs made for boundary k and log the runs
\* made for the document.  Either boundary k waits for ocr_page on its next
\* image page: the page is rendered to a temporary PNG and subprocess.run
\* (timeout=30) is entered, the document open and all_topics and inventory
\* as they were.  Or the loop is over: doc.close(), return topics, then
\* all_topics.extend(topics) and inventory.append(inv) in process_all.
TopicLoop(topics, k, o, log) ==
    /\ results' = topics
    /\ IF k <= Len(boundaries)
       THEN /\ \E out \in OcrPageOutcomes :
                  ocr' = [k |-> k, st |-> "ran", out |-> out, tmp |-> TRUE,
                          pg |-> Min_of(ocr_pending(cur, boundaries[k], opts.do_ocr, o)),
                          o |-> o, log |-> log]
            /\ pc' = "et_ocr"
            /\ UNCHANGED <<handles, all_results, inventory>>
       ELSE /\ ocr' = [k |-> k, st |-> "idle", out |-> "none", tmp |-> FALSE,
                       pg |-> -1, o |-> o, log |-> log]
            /\ handles' = handles \ {<<idx, "doc">>}
            /\ all_results' = all_results \o [i \in 1..Len(topics) |-> [src |-> idx, rec |-> topics[i]]]
            /\ Inventoried(Len(topics))
            /\ pc' = "done"
    /\ UNCHANGED <<batch, idx, opts, disk, tot, failed_pdf, mode, source, si, doc, cur, fmt, problems, sess, sessions, boundaries, pos, failed, calls>>

\* topics = []; for b in boundaries: up to the first tesseract run, or to the
\* end when no topic needs one
ETTopics ==
    /\ mode = "topics_batch"
    /\ pc = "tb_ret"
    /\ boundaries # <<>>
    /\ LET s == topics_from(cur, boundaries, opts.do_ocr, <<>>, 1)
       IN  TopicLoop(s.topics, s.k, <<>>, <<>>)

\* the tesseract run ends: the temporary PNG is removed (finally), the page
\* adds its [OCR pN] block or nothing, and the loop goes on to the next run
\* or to its end
ETOcrDone ==
    /\ mode = "topics_batch"
    /\ pc = "et_ocr"
    /\ ocr.st = "ran"
    /\ LET o == (ocr.pg :> ocr.out) @@ ocr.o
           log == Append(ocr.log, [k |-> ocr.k, pg |-> ocr.pg, out |-> ocr.out])
       IN  IF ocr_pending(cur, boundaries[ocr.k], opts.do_ocr, o) # {}
           THEN TopicLoop(results, ocr.k, o, log)
           ELSE LET s == topics_from(cur, boundaries, opts.do_ocr,
                             Append(results, topic_info(cur, boundaries[ocr.k], opts.do_ocr, o)),
                             ocr.k + 1)
                IN  TopicLoop(s.topics, s.k, <<>>, log)

\* after the loop: the report is written, the list of records returned
RPReport ==
    /\ mode \in {"batch", "topics_batch", "exam_batch", "books_batch"}
    /\ pc = "done"
    /\ idx = Len(batch)
    /\ pc' = "end"
    /\ UNCHANGED <<bvars, failed_pdf, handles, mode, source, si, doc, cur, fmt, problems, sess, sessions, boundaries, pos, failed, results, calls>>

\* ---- extract_topics.find_topic_boundaries
TBBegin ==
    /\ pc = "tb_call"
    /\ detect_pdf_format(cur) # "menti"
    /\ boundaries' = <<>>
    /\ pos' = next_cand(cur, scan_start(detect_pdf_format(cur)), 1)
    /\ pc' = "tb_scan"
    /\ calls' = calls \cup {"find_topic_boundaries"}
    /\ UNCHANGED <<bvars, failed_pdf, handles, mode, source, si, doc, cur, fmt, problems, sess, sessions, failed, results>>

TBMenti ==
    /\ pc = "tb_call"
    /\ detect_pdf_format(cur) = "menti"
    /\ boundaries' = _find_menti_boundaries(cur, problems)
    /\ pc' = "tb_ret"
    /\ calls' = calls \cup {"find_topic_boundaries"}
    /\ UNCHANGED <<bvars, failed_pdf, handles, mode, source, si, doc, cur, fmt, problems, sess, sessions, pos, failed, results>>

TBScan ==
    /\ pc = "tb_scan"
    /\ pos[1] < Len(cur)
    /\ boundaries' = topic_step(boundaries, cur, problems, pos[1], pos[2])
    /\ pos' = next_cand(cur, pos[1], pos[2] + 1)
    /\ UNCHANGED <<bvars, failed_pdf, handles, mode, source, si, doc, cur, fmt, problems, sess, sessions, pc, failed, results, calls>>

\* after the loops: the same dedupe and sort as in split_and_ocr, then
\* _assign_page_ends
TBFinish ==
    /\ pc = "tb_scan"
    /\ pos[1] >= Len(cur)
    /\ boundaries' = _assign_page_ends(cur, dedupe_sort(boundaries))
    /\ pc' = "tb_ret"
    /\ UNCHANGED <<bvars, failed_pdf, handles, mode, source, si, doc, cur, fmt, problems, sess, sessions, pos, failed, results, calls>>

Next ==
    \/ FBBegin \/ FBMenti \/ FBScan \/ FBFinish
    \/ TBBegin \/ TBMenti \/ TBScan \/ TBFinish
    \/ RPDetect \/ RPSparse \/ RPProblemOnly \/ RPMergedShort \/ RPMergedCut
    \/ RPNoListing \/ RPListing \/ RPNoBoundaries \/ RPSplit \/ RPSplitRet
    \/ RPExtend

Spec == Init /\ [][Next]_vars

\* ---- split_and_ocr.run_pipeline over a batch of documents
\* run_pipeline(do_ocr, dry_run) over pdfs
InitBatch ==
    /\ mode = "batch"
    /\ source = "none"
    /\ batch \in Batches
    /\ idx = 1
    /\ opts \in [dry_run : BOOLEAN, do_ocr : BOOLEAN]
    /\ doc = batch[1].pages
    /\ problems = <<>>
    /\ sess = NoSession
    /\ pc = "rp_open"
    /\ InitCommon

\* extract_topics.process_all(do_ocr) over review_pdfs
InitTopicsBatch ==
    /\ mode = "topics_batch"
    /\ source = "none"
    /\ batch \in TopicBatches
    /\ idx = 1
    /\ opts \in [dry_run : {FALSE}, do_ocr : BOOLEAN]
    /\ doc = batch[1].pages
    /\ problems = <<>>
    /\ sess = NoSession
    /\ pc = "et_open"
    /\ InitCommon

\* ---- the listing strategies called on their own
\* a first page with a numbered line before the select marker and a gap in
\* the numbers after it
InlineGap ==
    Page(250, FALSE, <<Item(0, 2, 2), Sel(1), Item(2, 1, 1), Item(3, 3, 3),
                       Label(4, "intent")>>)

\* a first page whose only numbered line comes after the intent label
InlineLate ==
    Page(250, FALSE, <<Sel(0), Label(1, "intent"), Item(2, 1, 1),
                       Label(3, "approach")>>)

\* topic 1 once more, under another title
Retitled == Page(250, FALSE, <<Item(0, 1, 2), Label(1, "intent")>>)

\* cards 2 and 1 in this order, under other titles than on CardFront
CardBack == Page(250, FALSE, <<QCard(0, 2, 1), CardHdr(1), QCard(6, 1, 2), CardHdr(7)>>)

\* topic 1 under a title of three characters
ShortTitled == Page(250, FALSE, <<ShortItem(0, 1), Label(1, "intent")>>)

\* topic 3 with no keyword near it but '관리'
SubjectPage == Page(250, FALSE, <<Item(0, 3, 3), Label(1, "subject")>>)

\* card 1 with its 출제의도 line indented, then card 2
CardIndented ==
    Page(250, FALSE, <<QCard(0, 1, 1), Indented(Label(1, "intent")), QCard(2, 2, 2),
                       CardHdr(3)>>)

\* '문 제' and the number 3 on two lines, no title after the dot; then text
CardSplit == Page(250, FALSE, <<QWord(0), NumDot(1, 3), Text(2, 12), CardHdr(3)>>)

ListPages ==
    {InlineFront, InlineGap, InlineLate, SelIntent, StrongPage(1), StrongPage(2),
     Retitled, ShortPage, TwoReversed, CardFront, CardBack, CardRun, BlankPage,
     ShortTitled, SubjectPage, CardIndented, CardSplit}

ListDocs == SeqsUpTo(ListPages, MaxPages)

InitList ==
    /\ mode = "listing"
    /\ source = "none"
    /\ doc \in ListDocs
    /\ problems = <<>>
    /\ sess = NoSession
    /\ pc = "l_call"
    /\ NoBatch
    /\ InitCommon

\* problems = strategy(doc); calls names the strategy
Listed(name, listing) ==
    /\ pc = "l_call"
    /\ problems' = listing
    /\ calls' = {name}
    /\ pc' = "l_ret"
    /\ UNCHANGED <<bvars, failed_pdf, handles, mode, source, si, doc, cur, fmt, sess, sessions, boundaries, pos, failed, results>>

LStandard ==
    /\ mode = "listing"
    /\ Listed("_problems_standard", _problems_standard(doc))

LInline ==
    /\ mode = "listing"
    /\ Listed("_problems_inline", _problems_inline(doc))

LMenti ==
    /\ mode = "listing"
    /\ Listed("_problems_menti", _problems_menti(doc))

LBare ==
    /\ mode = "listing"
    /\ Listed("_problems_bare", _problems_bare(doc))

\* extract_topics.extract_problem_list(doc)
LExtract ==
    /\ mode = "listing"
    /\ Listed("extract_problem_list", extract_problem_list(doc))

ListNext == LStandard \/ LInline \/ LMenti \/ LBare \/ LExtract

ListSpec == InitList /\ [][ListNext]_vars

\* ------------------------------------------- split_exam: session detection
\* Two more kinds of line: "gyosi" is 'N교시' (num: the session digit) and
\* "beon" is 'M번' (num: the question number).
Gyosi(li, n) == Ent(li, "gyosi", n, 0, "none")

Beon(li, n) == Ent(li, "beon", n, 0, "none")

gyosi_lines(p) == {e \in Range(p.ents) : e.kind = "gyosi"}

\* the first 'N교시' of the page text
first_gyosi(p) ==
    CHOOSE e \in gyosi_lines(p) : \A x \in gyosi_lines(p) : e.li <= x.li

\* len(text.strip()) < 50
BlankChars == 50

is_blank(p) == p.chars < BlankChars

\* sessions.sort(key=session); end = the next session's start - 1, the last
\* page for the last session
_assign_ends(ss, total) ==
    LET sorted == sorted_by(ss, [x \in Range(ss) |-> x.session])
    IN  [i \in 1..Len(sorted) |->
            [sorted[i] EXCEPT !.end =
                IF i + 1 <= Len(sorted) THEN sorted[i + 1].start - 1 ELSE total - 1]]

NewSession(n, pi) == [session |-> n, start |-> pi, end |-> -1]

\* the page loop of _sessions_by_header from page pi on: a page with 'N교시'
\* and the listing marker starts session N unless N is in the list
RECURSIVE header_pages(_, _, _)
header_pages(d, pi, ss) ==
    IF pi >= Len(d) THEN ss
    ELSE LET p == d[pi + 1]
         IN  IF /\ gyosi_lines(p) # {}
                /\ HasSelect(p)
                /\ \A i \in 1..Len(ss) : ss[i].session # first_gyosi(p).num
             THEN header_pages(d, pi + 1, Append(ss, NewSession(first_gyosi(p).num, pi)))
             ELSE header_pages(d, pi + 1, ss)

_sessions_by_header(d) == _assign_ends(header_pages(d, 0, <<>>), Len(d))

\* the page loop of _sessions_by_footer: a blank page resets prev; a page
\* whose 'N교시' differs from prev sets prev and starts session N unless N is
\* in the list. prev = None is -1 here: no digit equals it, so '0교시' on
\* the first page starts session 0
RECURSIVE footer_pages(_, _, _, _)
footer_pages(d, pi, prev, ss) ==
    IF pi >= Len(d) THEN ss
    ELSE LET p == d[pi + 1]
         IN  IF is_blank(p) THEN footer_pages(d, pi + 1, -1, ss)
             ELSE IF gyosi_lines(p) = {} \/ first_gyosi(p).num = prev
                  THEN footer_pages(d, pi + 1, prev, ss)
             ELSE IF \E i \in 1..Len(ss) : ss[i].session = first_gyosi(p).num
                  THEN footer_pages(d, pi + 1, first_gyosi(p).num, ss)
             ELSE footer_pages(d, pi + 1, first_gyosi(p).num,
                               Append(ss, NewSession(first_gyosi(p).num, pi)))

\* while end > start and the page at end is blank: end -= 1
RECURSIVE trim_blank(_, _, _)
trim_blank(d, start, end) ==
    IF end > start /\ is_blank(d[end + 1])
    THEN trim_blank(d, start, end - 1)
    ELSE end

_sessions_by_footer(d) ==
    LET ss == _assign_ends(footer_pages(d, 0, -1, <<>>), Len(d))
    IN  [i \in 1..Len(ss) |->
            [ss[i] EXCEPT !.end = trim_blank(d, ss[i].start, ss[i].end)]]

\* ---------------------------------------- split_exam: scan_dongkihoe_all
\* characters of the line e
line_chars(e) == e.w

\* characters of the lines before line li
RECURSIVE chars_before(_, _, _)
chars_before(p, li, i) ==
    IF i > Len(p.ents) THEN 0
    ELSE (IF p.ents[i].li < li THEN line_chars(p.ents[i]) ELSE 0)
         + chars_before(p, li, i + 1)

\* index in the page text of the first character of line e: the line breaks
\* and the characters before it
offset(p, e) == e.li + chars_before(p, e.li, 1)

\* the entry on the next line that is not empty
next_line(p, e) ==
    LET after == {x \in Range(p.ents) : x.li > e.li}
    IN  IF after = {} THEN Ent(-1, "none", 0, 0, "none")
        ELSE CHOOSE x \in after : \A y \in after : x.li <= y.li

\* text[:500] and text[:80]
ScanChars == 500

HeadChars == 80

\* the matches of 'N교시 \n M번' that end within text[:500]
embedded(p) ==
    {e \in gyosi_lines(p) :
        /\ next_line(p, e).kind = "beon"
        /\ offset(p, next_line(p, e)) + line_chars(next_line(p, e)) <= ScanChars}

first_embedded(p) == CHOOSE e \in embedded(p) : \A x \in embedded(p) : e.li <= x.li

\* the session digit of the first 'N교시' within text[:80]; -1 when there is
\* none (header_m is None), 0 being the digit of '0교시'
header_session(p) ==
    LET hs == {e \in gyosi_lines(p) : offset(p, e) + line_chars(e) <= HeadChars}
    IN  IF hs = {} THEN -1
        ELSE (CHOOSE e \in hs : \A x \in hs : e.li <= x.li).num

\* MAX_Q.get(s, dflt)
MAX_Q(s, dflt) == IF s = 1 THEN 13 ELSE IF s \in {2, 3, 4} THEN 6 ELSE dflt

\* Variant: the header's session is taken whenever there is a header
detected_session_header(p) ==
    LET n == first_embedded(p).num
        q == next_line(p, first_embedded(p)).num
    IN  IF q > MAX_Q(n, 6) /\ header_session(p) # -1 THEN header_session(p) ELSE n

\* the session a matched page is grouped under
detected_session(p) ==
    LET n == first_embedded(p).num
        q == next_line(p, first_embedded(p)).num
        alt == header_session(p)
    IN  IF q > MAX_Q(n, 6) /\ alt # -1 /\ q <= MAX_Q(alt, 13) THEN alt ELSE n

\* text[:1200]
TitleChars == 1200

munje_lines(p) == {e \in Range(p.ents) : e.kind = "munje"}

\* The title of a matched page: what
\* 문제\s*\n(.+?)(?:\n도메인|\n난이도|\n출제) finds in text[:1200], cut to its
\* first line.  After the first '문제' that ends its line the match runs to
\* a line that begins with '출제' and ends within the 1200 characters.  \s*
\* is greedy: when such a line follows the next line that is not empty, the
\* title is the text of that next line (OtherText); when the next line is
\* itself the only one and two or more empty lines lie before it, the match
\* holds a line break alone and the title is '' (0); 'Qn' (-1) when nothing
\* matches.
dongkihoe_title(p) ==
    IF munje_lines(p) = {} THEN -1
    ELSE LET m == CHOOSE e \in munje_lines(p) : \A x \in munje_lines(p) : e.li <= x.li
             n == next_line(p, m)
             ts == {e \in Range(p.ents) :
                       starts_chulje(e) /\ e.li > m.li /\ offset(p, e) + 2 <= TitleChars}
         IN  IF \E x \in ts : x.li > n.li THEN OtherText
             ELSE IF n \in ts /\ n.li - m.li >= 3 THEN 0
             ELSE -1

\* the page loop of scan_dongkihoe_all
RECURSIVE dongkihoe_pages(_, _, _)
dongkihoe_pages(d, pi, bs) ==
    IF pi >= Len(d) THEN bs
    ELSE LET p == d[pi + 1]
         IN  IF embedded(p) = {} THEN dongkihoe_pages(d, pi + 1, bs)
             ELSE LET q == next_line(p, first_embedded(p)).num
                      s == detected_session(p)
                  IN  IF \E i \in 1..Len(bs) :
                            bs[i].detected_session = s /\ bs[i].num = q
                      THEN dongkihoe_pages(d, pi + 1, bs)
                      ELSE dongkihoe_pages(d, pi + 1,
                               Append(bs, [num |-> q, title |-> dongkihoe_title(p),
                                           page_idx |-> pi,
                                           detected_session |-> s, score |-> 20,
                                           page_end |-> -1]))

scan_dongkihoe_all(d) ==
    LET found == dongkihoe_pages(d, 0, <<>>)
        bs == sorted_by(found, key_page(found))
        ended == [i \in 1..Len(bs) |->
                    [bs[i] EXCEPT !.page_end =
                        trim_blank(d, bs[i].page_idx,
                                   IF i + 1 <= Len(bs) THEN bs[i + 1].page_idx - 1
                                   ELSE Len(d) - 1)]]
    IN  SelectSeq(ended, LAMBDA b : b.page_end >= b.page_idx)

\* ---- pages of exam documents
\* a session start page of KPC/ITPE: 'N교시' and the select line
HeaderPage(n) == Page(250, FALSE, <<Gyosi(0, n), Sel(1)>>)

\* a content page of 동기회: 'N교시' alone
FooterPage(n) == Page(250, FALSE, <<Gyosi(0, n)>>)

\* 'N교시' on a page of less than 50 characters
ShortFooter == Page(40, FALSE, <<Gyosi(0, 1)>>)

\* question M of session N, without and with a page header 'H교시'
Question(n, m) == Page(250, FALSE, <<Gyosi(0, n), Beon(1, m)>>)

HeadedQuestion(h, n, m) == Page(250, FALSE, <<Gyosi(0, h), Sel(1), Gyosi(2, n), Beon(3, m)>>)

\* the header line beyond the first 80 characters: the question marker is
\* the first 'N교시' of the page but lies at index 90
LateQuestion == Page(250, FALSE, <<Gyosi(90, 2), Beon(91, 7)>>)

\* six lines of a list before the page header: '1교시' begins at index 93,
\* the question marker '2교시' at index 117
PushedQuestion ==
    Page(250, FALSE, <<Item(0, 1, 1), Item(1, 2, 2), Item(2, 3, 3), Item(3, 4, 1),
                       Item(4, 5, 2), Item(5, 6, 3), Gyosi(6, 1), Sel(7), Gyosi(8, 2),
                       Beon(9, 7)>>)

SessionPages ==
    {HeaderPage(n) : n \in 1..3} \cup {FooterPage(n) : n \in 0..2}
    \cup {ShortFooter, FillPage, BlankPage}

QuestionPages ==
    {Question(1, 7), Question(2, 6), Question(2, 7), Question(5, 7), LateQuestion,
     HeadedQuestion(1, 2, 7), HeadedQuestion(3, 2, 7), HeadedQuestion(5, 2, 7),
     HeadedQuestion(0, 2, 7),
     HeadedQuestion(1, 2, 14), PushedQuestion, FillPage, BlankPage}

ExamDocs == SeqsUpTo(SessionPages, MaxPages) \cup SeqsUpTo(QuestionPages, MaxPages)

\* a question page of 동기회 with a title after '문제', with nothing but empty
\* lines between '문제' and '출제의도', and with '출제의도' beyond text[:1200]
TitledQuestion ==
    Page(250, FALSE, <<Gyosi(0, 1), Beon(1, 2), Munje(2), Text(3, 11), Label(4, "intent")>>)

EmptyTitled == Page(250, FALSE, <<Gyosi(0, 1), Beon(1, 3), Munje(2), Label(5, "intent")>>)

LateTitled ==
    Page(1500, FALSE, <<Gyosi(0, 1), Beon(1, 4), Munje(2), Text(3, 11),
                        Label(1300, "intent")>>)

TitlePages == {TitledQuestion, EmptyTitled, LateTitled, Question(2, 6), BlankPage}

TitleDocs == SeqsUpTo(TitlePages, MaxPages)

\* ---- the exam functions, each applied on its own to a document
ExamSources == {"KPC", "ITPE", "dongkihoe"}

\* find_sessions(doc, source, exam_type)
find_sessions(d, src) ==
    IF src \in {"KPC", "ITPE"} THEN _sessions_by_header(d)
    ELSE IF src = "dongkihoe" THEN _sessions_by_footer(d)
    ELSE <<>>

\* find_sessions(doc, source, exam_type) and scan_dongkihoe_all(doc), each
\* called on its own
InitExam ==
    /\ mode = "exam"
    /\ \/ source \in {"KPC", "dongkihoe"} /\ doc \in ExamDocs
       \/ source = "dongkihoe" /\ doc \in TitleDocs
       \/ source \in {"ITPE", "UNKNOWN"} /\ doc \in SeqsUpTo(SessionPages, 1)
    /\ problems = <<>>
    /\ sess = NoSession
    /\ pc = "x_call"
    /\ NoBatch
    /\ InitCommon

\* find_sessions: sessions = _sessions_by_header(doc)
XHeader ==
    /\ mode = "exam"
    /\ pc = "x_call"
    /\ source \in {"KPC", "ITPE"}
    /\ sessions' = _sessions_by_header(doc)
    /\ calls' = {"_sessions_by_header"}
    /\ pc' = "x_ret"
    /\ UNCHANGED <<mode, source, si, doc, cur, fmt, problems, sess, boundaries, pos, failed,
                 results, failed_pdf, handles, bvars>>

\* find_sessions: sessions = _sessions_by_footer(doc)
XFooter ==
    /\ mode = "exam"
    /\ pc = "x_call"
    /\ source = "dongkihoe"
    /\ sessions' = _sessions_by_footer(doc)
    /\ calls' = {"_sessions_by_footer"}
    /\ pc' = "x_ret"
    /\ UNCHANGED <<mode, source, si, doc, cur, fmt, problems, sess, boundaries, pos, failed,
                 results, failed_pdf, handles, bvars>>

\* find_sessions: return [] for any other source
XNoSource ==
    /\ mode = "exam"
    /\ pc = "x_call"
    /\ source \notin ExamSources
    /\ sessions' = <<>>
    /\ calls' = {"find_sessions"}
    /\ pc' = "x_ret"
    /\ UNCHANGED <<mode, source, si, doc, cur, fmt, problems, sess, boundaries, pos, failed,
                 results, failed_pdf, handles, bvars>>

\* boundaries = scan_dongkihoe_all(doc)
XScan ==
    /\ mode = "exam"
    /\ pc = "x_call"
    /\ source = "dongkihoe"
    /\ boundaries' = scan_dongkihoe_all(doc)
    /\ calls' = {"scan_dongkihoe_all"}
    /\ pc' = "x_ret"
    /\ UNCHANGED <<mode, source, si, doc, cur, fmt, problems, sess, sessions, pos, failed,
                 results, failed_pdf, handles, bvars>>

\* ---- split_exam.find_boundaries(doc, problems, sess, source): the listing
\* is completed and sorted, then the locator of the source runs
\* documents of one exam session (ITPE): the question number '0n', the title
\* and '문제', each on a line of its own
IQuestion(n) == Page(250, FALSE, <<Text(0, 12), Num2(3, n), Text(4, 11), Munje(5)>>)

\* the page number '02' before the question number '01'
IPaged == Page(250, FALSE, <<Num2(2, 2), Num2(3, 1), Text(4, 11), Munje(5)>>)

\* no line of more than 3 characters in the three lines after the number
IUntitled == Page(250, FALSE, <<Num2(3, 1), Munje(7)>>)

\* a number that only the first session expects
IPageNo == Page(250, FALSE, <<Num2(2, 7), Text(4, 11), Munje(5)>>)

\* '문제' five lines after the number; the number on the eleventh line
IFar == Page(250, FALSE, <<Num2(3, 1), Text(4, 11), Munje(8)>>)

ILate == Page(250, FALSE, <<Num2(10, 1), Text(11, 11), Munje(12)>>)

IPages == {FillPage, IQuestion(1), IQuestion(2), IPaged, IUntitled, IPageNo}

\* six question pages after the first page, as many as a session other than
\* the first expects, with numbers that repeat
ILongDocs ==
    {<<FillPage, IQuestion(1), IQuestion(2), IQuestion(2), IQuestion(1), IPaged, IUntitled>>,
     <<FillPage, IQuestion(1), IQuestion(1), IQuestion(1), IQuestion(1), IQuestion(1),
       IQuestion(1)>>}

IDocs == SeqsUpTo(IPages, MaxPages) \cup ILongDocs \cup {<<FillPage, IFar>>, <<FillPage, ILate>>}

\* find_boundaries(doc, problems, sess, source) called on its own
InitExamFB ==
    /\ mode = "exam_fb"
    /\ \/ source = "KPC" /\ doc \in KDocs
       \/ source = "ITPE" /\ doc \in IDocs
       \/ source \in {"dongkihoe", "UNKNOWN"} /\ doc \in {<<FillPage, KQuestion(1), IQuestion(1)>>}
    /\ problems \in KListings
    /\ \E n \in {1, 2}, a \in 0..Min(1, Len(doc) - 1), z \in 0..(Len(doc) - 1) :
          sess = [session |-> n, start |-> a, end |-> z]
    /\ pc = "xfb_call"
    /\ NoBatch
    /\ InitCommon

\* source == 'KPC': _bounds_kpc
KBegin ==
    /\ pc = "xfb_call"
    /\ source = "KPC"
    /\ problems' = complete_listing(problems, sess)
    /\ boundaries' = <<>>
    /\ pos' = next_kcand(doc, sess.start + 1, 1, sess.end)
    /\ pc' = "k_scan"
    /\ UNCHANGED <<mode, source, si, doc, cur, fmt, sess, sessions, failed, results, calls,
                 failed_pdf, handles, bvars>>

KScan ==
    /\ pc = "k_scan"
    /\ pos[1] <= sess.end
    /\ boundaries' = kpc_step(boundaries, problems, pos[1], doc[pos[1] + 1].ents[pos[2]])
    /\ pos' = next_kcand(doc, pos[1], pos[2] + 1, sess.end)
    /\ UNCHANGED <<mode, source, si, doc, cur, fmt, problems, sess, sessions, pc, failed,
                 results, calls, failed_pdf, handles, bvars>>

KFinish ==
    /\ pc = "k_scan"
    /\ pos[1] > sess.end
    /\ boundaries' = _assign_boundary_ends(sorted_by(boundaries, key_page(boundaries)),
                                           sess.end)
    /\ pc' = "xfb_ret"
    /\ UNCHANGED <<mode, source, si, doc, cur, fmt, problems, sess, sessions, pos, failed,
                 results, calls, failed_pdf, handles, bvars>>

\* source == 'ITPE': _bounds_itpe
IBegin ==
    /\ pc = "xfb_call"
    /\ source = "ITPE"
    /\ problems' = complete_listing(problems, sess)
    /\ boundaries' = <<>>
    /\ pos' = <<next_icand(doc, sess.start + 1, sess.end, problems'), 1>>
    /\ pc' = "i_scan"
    /\ UNCHANGED <<mode, source, si, doc, cur, fmt, sess, sessions, failed, results, calls,
                 failed_pdf, handles, bvars>>

\* one page with a matching line
IScan ==
    /\ pc = "i_scan"
    /\ pos[1] <= sess.end
    /\ boundaries' = itpe_step(boundaries, doc[pos[1] + 1], pos[1], problems)
    /\ pos' = <<next_icand(doc, pos[1] + 1, sess.end, problems), 1>>
    /\ UNCHANGED <<mode, source, si, doc, cur, fmt, problems, sess, sessions, pc, failed,
                 results, calls, failed_pdf, handles, bvars>>

\* the sort by page, the post-process and the ends
IFinish ==
    /\ pc = "i_scan"
    /\ pos[1] > sess.end
    /\ boundaries' = _assign_boundary_ends(
                        renumber_or_dedupe(sorted_by(boundaries, key_page(boundaries)),
                                           problems, sess),
                        sess.end)
    /\ pc' = "xfb_ret"
    /\ UNCHANGED <<mode, source, si, doc, cur, fmt, problems, sess, sessions, pos, failed,
                 results, calls, failed_pdf, handles, bvars>>

\* source == '동기회': _bounds_dongkihoe, the stub
DStub ==
    /\ pc = "xfb_call"
    /\ source = "dongkihoe"
    /\ problems' = complete_listing(problems, sess)
    /\ boundaries' = _bounds_dongkihoe
    /\ pc' = "xfb_ret"
    /\ UNCHANGED <<mode, source, si, doc, cur, fmt, sess, sessions, pos, failed, results,
                 calls, failed_pdf, handles, bvars>>

\* any other source: return []
XFNoSource ==
    /\ pc = "xfb_call"
    /\ source \notin ExamSources
    /\ problems' = complete_listing(problems, sess)
    /\ boundaries' = <<>>
    /\ pc' = "xfb_ret"
    /\ UNCHANGED <<mode, source, si, doc, cur, fmt, sess, sessions, pos, failed, results,
                 calls, failed_pdf, handles, bvars>>

\* ---- split_exam.run_pipeline, one iteration of the batch loop
\* a session start page with a listing
ListedHeader == Page(250, FALSE, <<Gyosi(0, 1), Sel(1), Item(2, 1, 1), Item(3, 2, 2)>>)

\* '1교시' and a card question, no select line: the first content page of a
\* file whose session comes from its name
NamedStart == Page(250, FALSE, <<Gyosi(0, 1), QCard(1, 1, 1)>>)

XRPages ==
    {HeaderPage(1), HeaderPage(2), ListedHeader, KQuestion(1), KTwo, IQuestion(1),
     IQuestion(2), BlankPage}

\* pdfs as find_exam_pdfs lists them: the source read from the file name
\* (never UNKNOWN) and file_session, the digit before '교시' in the name
\* (0: None)
Pdf(d, ok, src, fs) == [pages |-> d, ok |-> ok, source |-> src, file_session |-> fs]

\* run_pipeline(do_split=True, do_ocr=False) with one pdf in the list
InitExamRun ==
    /\ mode = "exam_run"
    /\ \/ /\ source \in {"KPC", "ITPE"}
          /\ doc \in SeqsUpTo(XRPages, MaxPages)
                     \cup {<<HeaderPage(1), IQuestion(1), KQuestion(1), HeaderPage(2),
                             KQuestion(1), IQuestion(2)>>}
          /\ \E fs \in {0, 2} : batch = <<Pdf(doc, TRUE, source, fs)>>
       \/ /\ source = "ITPE"
          /\ doc \in {<<BlankPage, NamedStart, IQuestion(1)>>, <<FillPage, IQuestion(1)>>}
          /\ batch = <<Pdf(doc, TRUE, source, 1)>>
       \/ /\ source = "dongkihoe"
          /\ doc \in TitleDocs
          /\ batch = <<Pdf(doc, TRUE, source, 0)>>
    /\ problems = <<>>
    /\ sess = NoSession
    /\ pc = "xr_open"
    /\ idx = 1
    /\ opts = [dry_run |-> FALSE, do_ocr |-> FALSE]
    /\ InitCommon

InExamPipeline == mode \in {"exam_run", "exam_batch"}

\* fitz.open(pdf['path']) raises: the failure is recorded, no handle exists
XROpenFail ==
    /\ pc = "xr_open"
    /\ ~batch[idx].ok
    /\ failed' = Append(failed, "open error")
    /\ failed_pdf' = Append(failed_pdf, idx)
    /\ pc' = "done"
    /\ UNCHANGED <<mode, source, si, doc, cur, fmt, problems, sess, sessions, boundaries, pos,
                 results, calls, handles, bvars>>

\* 동기회: doc = fitz.open(pdf['path']); all_bounds = scan_dongkihoe_all(doc)
XRScan ==
    /\ pc = "xr_open"
    /\ batch[idx].ok
    /\ source = "dongkihoe"
    /\ handles' = handles \cup {<<idx, "doc">>}
    /\ boundaries' = scan_dongkihoe_all(doc)
    /\ si' = 1
    /\ pc' = "xr_groups"
    /\ UNCHANGED <<mode, source, doc, cur, fmt, problems, sess, sessions, pos, failed,
                 results, calls, failed_pdf, bvars>>

\* if not all_bounds: the failure is recorded and the document closed
XRNoBounds ==
    /\ pc = "xr_groups"
    /\ boundaries = <<>>
    /\ Fail("no bounds")
    /\ UNCHANGED <<mode, source, si, doc, cur, fmt, problems, sess, sessions, boundaries, pos,
                 results, calls, bvars>>

\* sorted(by_sess): the sessions the boundaries were detected under
RECURSIVE ascending(_)
ascending(S) == IF S = {} THEN <<>> ELSE <<Min_of(S)>> \o ascending(S \ {Min_of(S)})

session_keys(bs) == ascending({bs[i].detected_session : i \in 1..Len(bs)})

\* by_sess[n]
by_sess(bs, n) == SelectSeq(bs, LAMBDA b : b.detected_session = n)

\* '교시' in text and ('문제' in text or '선택' in text)
is_content_start(p) ==
    /\ gyosi_lines(p) # {}
    /\ \E e \in Range(p.ents) : e.kind \in {"munje", "qcard", "sel"}

\* a file with the session in its name: the sessions its headers give, or
\* one session from the first content page (page 0 when there is none) to
\* the last page
file_sessions(d, fs) ==
    LET starts == {pi \in 0..(Len(d) - 1) : is_content_start(d[pi + 1])}
    IN  IF _sessions_by_header(d) # <<>> THEN _sessions_by_header(d)
        ELSE <<[session |-> fs, end |-> Len(d) - 1,
                start |-> IF starts = {} THEN 0 ELSE Min_of(starts)]>>

\* KPC/ITPE: doc = fitz.open(pdf['path']); the sessions of a file with the
\* session in its name
XRHeader ==
    /\ pc = "xr_open"
    /\ batch[idx].ok
    /\ source # "dongkihoe"
    /\ batch[idx].file_session # 0
    /\ handles' = handles \cup {<<idx, "doc">>}
    /\ sessions' = file_sessions(doc, batch[idx].file_session)
    /\ si' = 1
    /\ pc' = "xr_sess"
    /\ UNCHANGED <<mode, source, doc, cur, fmt, problems, sess, boundaries, pos, failed,
                 results, calls, failed_pdf, bvars>>

\* KPC/ITPE: doc = fitz.open(pdf['path']); sessions = find_sessions(doc, ..)
XRFind ==
    /\ pc = "xr_open"
    /\ batch[idx].ok
    /\ source # "dongkihoe"
    /\ batch[idx].file_session = 0
    /\ handles' = handles \cup {<<idx, "doc">>}
    /\ sessions' = find_sessions(doc, source)
    /\ si' = 1
    /\ pc' = "xr_sess"
    /\ UNCHANGED <<mode, source, doc, cur, fmt, problems, sess, boundaries, pos, failed,
                 results, calls, failed_pdf, bvars>>

\* if not sessions: the failure is recorded and the document closed
XRNoSessions ==
    /\ pc = "xr_sess"
    /\ sessions = <<>>
    /\ Fail("no sessions")
    /\ UNCHANGED <<mode, source, si, doc, cur, fmt, problems, sess, sessions, boundaries, pos,
                 results, calls, bvars>>

\* for sess in sessions: the listing of the session, then find_boundaries
XRSession ==
    /\ pc = "xr_sess"
    /\ si <= Len(sessions)
    /\ sess' = sessions[si]
    /\ problems' = session_listing(doc, sessions[si])
    /\ pc' = "xfb_call"
    /\ UNCHANGED <<mode, source, si, doc, cur, fmt, sessions, boundaries, pos, failed,
                 results, calls, failed_pdf, handles, bvars>>

\* if not bounds: the failure '%d교시 no bounds' is recorded and the loop
\* goes on with the next session, the document open
XRSessionNoBounds ==
    /\ InExamPipeline
    /\ pc = "xfb_ret"
    /\ boundaries = <<>>
    /\ failed' = Append(failed, ToString(sess.session) \o "gyosi no bounds")
    /\ failed_pdf' = Append(failed_pdf, idx)
    /\ si' = si + 1
    /\ pc' = "xr_sess"
    /\ UNCHANGED <<mode, source, doc, cur, fmt, problems, sess, sessions, boundaries, pos,
                 results, calls, handles, bvars>>

\* the boundaries of a session are at hand: of the next group of by_sess
\* (동기회), or returned by find_boundaries
AtBounds ==
    /\ InExamPipeline
    /\ boundaries # <<>>
    /\ \/ pc = "xr_groups" /\ si <= Len(session_keys(boundaries))
       \/ pc = "xfb_ret"

\* bounds and the session number of the iteration
bounds ==
    IF source = "dongkihoe" THEN by_sess(boundaries, session_keys(boundaries)[si])
    ELSE boundaries

session_num ==
    IF source = "dongkihoe" THEN session_keys(boundaries)[si] ELSE sess.session

\* where the loop over the sessions goes on
SessionLoop == IF source = "dongkihoe" THEN "xr_groups" ELSE "xr_sess"

\* split_exam.split_pdf: the records of split_pdf with the session's number
split_pdf_session(d, bs, n) ==
    [i \in 1..Len(split_pdf(d, bs)) |-> [session |-> n] @@ split_pdf(d, bs)[i]]

\* total += len(bounds); if not do_split: continue
XRDryRun ==
    /\ AtBounds
    /\ opts.dry_run
    /\ tot' = [tot EXCEPT !.topics = @ + Len(bounds)]
    /\ si' = si + 1
    /\ pc' = SessionLoop
    /\ UNCHANGED <<mode, source, doc, cur, fmt, problems, sess, sessions, boundaries, pos,
                 failed, results, calls, failed_pdf, handles, batch, idx, opts,
                 all_results, ocr, disk, inventory>>

\* total += len(bounds); split_pdf opens the file at pdf['path'] again and
\* writes one file per boundary
XRSplit ==
    /\ AtBounds
    /\ ~opts.dry_run
    /\ tot' = [tot EXCEPT !.topics = @ + Len(bounds)]
    /\ handles' = handles \cup {<<idx, "src">>}
    /\ results' = split_pdf_session(doc, bounds, session_num)
    /\ disk' = [k \in 1..Len(results') |-> "split"]
    /\ calls' = calls \cup {"split_pdf"}
    /\ pc' = "xsp_ret"
    /\ UNCHANGED <<mode, source, si, doc, cur, fmt, problems, sess, sessions, boundaries, pos,
                 failed, failed_pdf, batch, idx, opts, all_results, ocr, inventory>>

\* split_pdf: doc.close(); return results
XRSplitRet ==
    /\ pc = "xsp_ret"
    /\ handles' = handles \ {<<idx, "src">>}
    /\ ocr' = NoOcr(1)
    /\ pc' = "xr_ocr"
    /\ UNCHANGED <<mode, source, si, doc, cur, fmt, problems, sess, sessions, boundaries, pos,
                 failed, results, calls, failed_pdf, batch, idx, opts, all_results,
                 disk, tot, inventory>>

\* apply_ocr: the call of ocrmypdf ends as in split_and_ocr
XROcrRun ==
    /\ pc = "xr_ocr"
    /\ opts.do_ocr
    /\ ocr.st = "idle"
    /\ next_ocr(results, ocr.k) <= Len(results)
    /\ \E out \in OcrOutcomes, tmp \in BOOLEAN :
          ocr' = [k |-> next_ocr(results, ocr.k), st |-> "ran", out |-> out, tmp |-> tmp]
    /\ UNCHANGED <<mode, source, si, doc, cur, fmt, problems, sess, sessions, boundaries, pos,
                 pc, failed, results, calls, failed_pdf, handles, batch, idx, opts,
                 all_results, disk, tot, inventory>>

\* the rest of apply_ocr, then r['ocr_applied'] = ok
XROcrDone ==
    /\ pc = "xr_ocr"
    /\ ocr.st = "ran"
    /\ LET r == apply_ocr(ocr.out, ocr.tmp, disk[ocr.k])
       IN  /\ disk' = [disk EXCEPT ![ocr.k] = r.file]
           /\ results' = [results EXCEPT ![ocr.k] = ("ocr_applied" :> r.ok) @@ @]
           /\ ocr' = [k |-> ocr.k + 1, st |-> "idle", out |-> ocr.out, tmp |-> r.tmp]
    /\ UNCHANGED <<mode, source, si, doc, cur, fmt, problems, sess, sessions, boundaries, pos,
                 pc, failed, calls, failed_pdf, handles, batch, idx, opts, all_results,
                 tot, inventory>>

\* all_results.extend(results); the next session
XRExtend ==
    /\ pc = "xr_ocr"
    /\ ocr.st = "idle"
    /\ ~opts.do_ocr \/ next_ocr(results, ocr.k) > Len(results)
    /\ all_results' = all_results \o [k \in 1..Len(results) |-> [src |-> idx, rec |-> results[k]]]
    /\ si' = si + 1
    /\ pc' = SessionLoop
    /\ UNCHANGED <<mode, source, doc, cur, fmt, problems, sess, sessions, boundaries, pos,
                 failed, results, calls, failed_pdf, handles, batch, idx, opts, ocr,
                 disk, tot, inventory>>

\* after the last session: doc.close()
XRClose ==
    /\ \/ pc = "xr_groups" /\ boundaries # <<>> /\ si > Len(session_keys(boundaries))
       \/ pc = "xr_sess" /\ sessions # <<>> /\ si > Len(sessions)
    /\ handles' = handles \ {<<idx, "doc">>}
    /\ pc' = "done"
    /\ UNCHANGED <<mode, source, si, doc, cur, fmt, problems, sess, sessions, boundaries, pos,
                 failed, results, calls, failed_pdf, bvars>>

ExamNext ==
    \/ XHeader \/ XFooter \/ XNoSource \/ XScan
    \/ KBegin \/ KScan \/ KFinish \/ IBegin \/ IScan \/ IFinish \/ DStub \/ XFNoSource
    \/ XRScan \/ XRNoBounds \/ XRHeader \/ XRFind \/ XRNoSessions \/ XRSession
    \/ XRSessionNoBounds \/ XRSplit \/ XRSplitRet \/ XRExtend \/ XRClose

ExamSpec == (InitExam \/ InitExamFB \/ InitExamRun) /\ [][ExamNext]_vars

\* ---- the calls of the three scripts, each on its own
CallsNext ==
    \/ FBBegin \/ FBMenti \/ FBScan \/ FBFinish
    \/ RPDetect \/ RPSparse \/ RPProblemOnly \/ RPMergedShort \/ RPMergedCut
    \/ RPNoListing \/ RPListing \/ RPNoBoundaries \/ RPSplit \/ RPSplitRet \/ RPExtend
    \/ TBBegin \/ TBMenti \/ TBScan \/ TBFinish
    \/ KBegin \/ KScan \/ KFinish \/ IBegin \/ IScan \/ IFinish \/ DStub \/ XFNoSource
    \/ XRScan \/ XRNoBounds \/ XRHeader \/ XRFind \/ XRNoSessions \/ XRSession
    \/ XRSessionNoBounds \/ XRSplit \/ XRSplitRet \/ XRExtend \/ XRClose

CallsSpec == (Init \/ InitExamFB \/ InitExamRun) /\ [][CallsNext]_vars

\* ---- the batch loops
\* the pdfs of split_exam.run_pipeline: one the library cannot open, and one
\* document for each way an iteration ends: no boundary of 동기회, questions
\* of two sessions with an image page, no session, a session without a
\* boundary before one with boundaries, a file with the session in its name
ExamPdfs ==
    {Pdf(<<HeaderPage(1), KQuestion(1)>>, FALSE, "KPC", 0),
     Pdf(<<FillPage, BlankPage>>, TRUE, "dongkihoe", 0),
     Pdf(<<Question(2, 6), BlankPage, FillPage, TitledQuestion>>, TRUE, "dongkihoe", 0),
     Pdf(<<FillPage, KQuestion(1)>>, TRUE, "KPC", 0),
     Pdf(<<HeaderPage(1), HeaderPage(2), KQuestion(1), KTwo>>, TRUE, "KPC", 0),
     Pdf(<<BlankPage, NamedStart, IQuestion(1), IQuestion(1), ThinPage>>, TRUE, "ITPE", 1)}

\* pdfs = find_exam_pdfs(exam_dir): sorted by (source, exam, file_session),
\* the sources as strings ('ITPE' < 'KPC' < '동기회'). The exam number read
\* from the file name is not part of a pdf here, so two pdfs of one source
\* come in either order
ExamBatches ==
    LET source_order(src) == CASE src = "ITPE" -> 1 [] src = "KPC" -> 2 [] OTHER -> 3
    IN  {b \in SeqsUpTo(ExamPdfs, MaxBatch) :
            \A i \in 1..(Len(b) - 1) :
                source_order(b[i].source) <= source_order(b[i + 1].source)}

\* split_exam.run_pipeline(exam_num, do_split, do_ocr) over pdfs; dry_run
\* is not do_split
InitExamBatch ==
    /\ mode = "exam_batch"
    /\ batch \in ExamBatches
    /\ idx = 1
    /\ opts \in [dry_run : BOOLEAN, do_ocr : BOOLEAN]
    /\ doc = batch[1].pages
    /\ source = batch[1].source
    /\ problems = <<>>
    /\ sess = NoSession
    /\ pc = "xr_open"
    /\ InitCommon

\* ---- split_600.py: find_questions, split_pdf and run_pipeline over the books
SKIP_PAGES == 3

\* a page with less text than this is not read
MinTextChars == 50

\* the lines from the '문제' line on in which the marker is looked for
MarkerWindow == 12

MinTitleChars == 2

MaxTitleChars == 120

\* '도메인' or '출제영역' in lines[li:li+12]: of the lines of a page only the
\* card header holds one of the two words
has_area(p, e) ==
    \E x \in Range(p.ents) : x.kind = "card" /\ x.li >= e.li /\ x.li < e.li + MarkerWindow

\* the line li of the page can be the title: 2 to 120 characters once
\* stripped, and not digits alone (no line of a page begins with '-' or '•');
\* a line without an entry is empty
title_line(p, li) ==
    \E x \in Range(p.ents) :
        /\ x.li = li
        /\ x.kind # "num2"
        /\ stripped_chars(x) >= MinTitleChars
        /\ stripped_chars(x) <= MaxTitleChars

\* the index in lines (the text stripped, then split) of the '문제' line e
line_idx(p, e) == e.li - p.ents[1].li

\* the line whose text is the title of the question at the '문제' line e:
\* the line above, the second line above when the first is no title and
\* li > 1, -1 for no title
title_idx(p, e) ==
    LET li == line_idx(p, e)
    IN  IF li > 0 /\ title_line(p, e.li - 1) THEN li - 1
        ELSE IF li > 1 /\ title_line(p, e.li - 2) THEN li - 2
        ELSE -1

\* the questions of page pi, in the order of its lines; page_end is set
\* after the scan
page_questions(p, pi) ==
    LET es == SelectSeq(p.ents, LAMBDA e :
                  e.kind = "munje" /\ has_area(p, e) /\ title_idx(p, e) >= 0)
    IN  [k \in 1..Len(es) |->
            [topic_title |-> OtherText, title_idx |-> title_idx(p, es[k]),
             page_idx |-> pi, line_idx |-> line_idx(p, es[k]), page_end |-> -1]]

RECURSIVE questions_from(_, _)
questions_from(d, pi) ==
    IF pi >= Len(d) THEN <<>>
    ELSE (IF d[pi + 1].chars < MinTextChars THEN <<>> ELSE page_questions(d[pi + 1], pi))
         \o questions_from(d, pi + 1)

\* find_questions(doc): the value it returns
find_questions(d) ==
    LET qs == questions_from(d, SKIP_PAGES)
    IN  [i \in 1..Len(qs) |->
            [qs[i] EXCEPT !.page_end =
                IF i + 1 <= Len(qs)
                THEN (IF qs[i + 1].page_idx - 1 > qs[i].page_idx
                      THEN qs[i + 1].page_idx - 1 ELSE qs[i].page_idx)
                ELSE Len(d) - 1]]

\* split_600.split_pdf: one record per question with start_p <= end_p, q_num
\* the position of the question in the list
split_pdf_600(d, qs) ==
    split_pdf(d, [i \in 1..Len(qs) |->
                    [num |-> i, title |-> qs[i].topic_title,
                     page_idx |-> qs[i].page_idx, page_end |-> qs[i].page_end]])

\* a question with its title on the line above '문제' and the marker in the
\* window
BookQuestion ==
    Page(250, FALSE, <<Text(0, 5), Munje(1), Text(2, 30), CardHdr(3)>>)

\* two questions on one page
TwoQuestions ==
    Page(250, FALSE, <<Text(0, 5), Munje(1), CardHdr(2), Text(4, 5), Munje(5), CardHdr(12)>>)

\* a page number between the title and '문제' with the marker on the twelfth
\* line, then an empty line between the title and '문제'
DigitsAbove ==
    Page(250, FALSE, <<Text(0, 5), Num2(1, 7), Munje(2), CardHdr(13),
                       Text(15, 5), Munje(17), CardHdr(18)>>)

\* no question: '문제' is the first line of the text, '문제' under a page
\* number under a line of 121 characters, '문제' under an empty line under a
\* line of one character; the marker is in the window of each
UntitledPage ==
    Page(400, FALSE, <<Munje(0), Text(2, 121), Num2(3, 7), Munje(4), Text(6, 1),
                       Munje(8), CardHdr(9)>>)

\* no question: the marker is on the thirteenth line from '문제'
FarMarker == Page(250, FALSE, <<Text(0, 5), Munje(1), CardHdr(13)>>)

\* a question on a page with less than 50 characters
ThinQuestion == Page(40, FALSE, <<Text(0, 5), Munje(1), CardHdr(2)>>)

\* the books: one the library cannot open, and one document for each way an
\* iteration ends: nothing after the cover pages, questions on a cover page
\* and on pages that give none, questions with an image page between them,
\* a last question that runs over a page that is not read
BookPdfs ==
    {[pages |-> <<FillPage, FillPage, FillPage, BookQuestion>>, ok |-> FALSE]}
    \cup {[pages |-> d, ok |-> TRUE] : d \in
            {<<FillPage, FillPage, FillPage>>,
             <<FillPage, FillPage, BookQuestion, UntitledPage, FarMarker, ThinQuestion>>,
             <<FillPage, FillPage, FillPage, BookQuestion, BlankPage, TwoQuestions>>,
             <<FillPage, FillPage, FillPage, DigitsAbove, ThinQuestion>>}}

BookBatches == SeqsUpTo(BookPdfs, MaxBatch)

\* split_600.run_pipeline(do_ocr, dry_run) over books
InitBooksBatch ==
    /\ mode = "books_batch"
    /\ source = "none"
    /\ batch \in BookBatches
    /\ idx = 1
    /\ opts \in [dry_run : BOOLEAN, do_ocr : BOOLEAN]
    /\ doc = batch[1].pages
    /\ problems = <<>>
    /\ sess = NoSession
    /\ pc = "bk_open"
    /\ InitCommon

\* fitz.open(path) raises: the failure is recorded, no handle exists
BKOpenFail ==
    /\ pc = "bk_open"
    /\ ~batch[idx].ok
    /\ failed' = Append(failed, "open error")
    /\ failed_pdf' = Append(failed_pdf, idx)
    /\ pc' = "done"
    /\ UNCHANGED <<bvars, handles, mode, source, si, doc, cur, fmt, problems, sess, sessions, boundaries, pos, results, calls>>

\* doc = fitz.open(path); questions = find_questions(doc)
BKFind ==
    /\ pc = "bk_open"
    /\ batch[idx].ok
    /\ handles' = handles \cup {DocHandle}
    /\ boundaries' = find_questions(doc)
    /\ calls' = calls \cup {"find_questions"}
    /\ pc' = "bk_found"
    /\ UNCHANGED <<bvars, failed_pdf, mode, source, si, doc, cur, fmt, problems, sess, sessions, pos, failed, results>>

\* not questions: the failure is recorded, doc.close(), continue
BKNoQuestions ==
    /\ pc = "bk_found"
    /\ boundaries = <<>>
    /\ Fail("no questions found")
    /\ UNCHANGED <<bvars, mode, source, si, doc, cur, fmt, problems, sess, sessions, boundaries, pos, results, calls>>

\* doc.close(); dry_run: total_questions += len(questions); continue
BKDryRun ==
    /\ pc = "bk_found"
    /\ boundaries # <<>>
    /\ opts.dry_run
    /\ handles' = handles \ {DocHandle}
    /\ tot' = [tot EXCEPT !.topics = @ + Len(boundaries)]
    /\ pc' = "done"
    /\ UNCHANGED <<inventory, batch, idx, opts, all_results, ocr, disk, failed_pdf, mode, source, si, doc, cur, fmt, problems, sess, sessions, boundaries, pos, failed, results, calls>>

\* doc.close(); split_pdf opens the file at path again and writes one file
\* per question; its return, the OCR loop and all_results.extend(results)
\* are RPSplitRet, OcrRun, OcrDone and RPExtend
BKSplit ==
    /\ pc = "bk_found"
    /\ boundaries # <<>>
    /\ ~opts.dry_run
    /\ handles' = (handles \ {DocHandle}) \cup {<<idx, "src">>}
    /\ results' = split_pdf_600(doc, boundaries)
    /\ disk' = [k \in 1..Len(results') |-> "split"]
    /\ calls' = calls \cup {"split_pdf"}
    /\ pc' = "sp_ret"
    /\ UNCHANGED <<inventory, batch, idx, opts, all_results, ocr, tot, failed_pdf, mode, source, si, doc, cur, fmt, problems, sess, sessions, boundaries, pos, failed>>

BatchInit == InitBatch \/ InitTopicsBatch \/ InitExamBatch \/ InitBooksBatch

BatchNext ==
    \/ RPOpenFail \/ RPDetect \/ RPSparse \/ RPProblemOnly \/ RPMergedShort
    \/ RPMergedCut \/ RPNoListing \/ RPListing
    \/ FBBegin \/ FBMenti \/ FBScan \/ FBFinish
    \/ RPNoBoundaries \/ RPDryRun \/ RPSplit \/ RPSplitRet
    \/ OcrRun \/ OcrDone \/ RPExtend \/ RPNextDoc \/ RPReport
    \/ ETOpenFail \/ ETNoProblems \/ ETOpen \/ ETNoBoundaries \/ ETTopics
    \/ ETOcrDone
    \/ TBBegin \/ TBMenti \/ TBScan \/ TBFinish
    \/ XROpenFail \/ XRScan \/ XRNoBounds \/ XRHeader \/ XRFind \/ XRNoSessions
    \/ XRSession \/ KBegin \/ KScan \/ KFinish \/ IBegin \/ IScan \/ IFinish
    \/ XRSessionNoBounds \/ XRDryRun \/ XRSplit \/ XRSplitRet \/ XROcrRun
    \/ XROcrDone \/ XRExtend \/ XRClose
    \/ BKOpenFail \/ BKFind \/ BKNoQuestions \/ BKDryRun \/ BKSplit

\* The statements of BatchNext whose effect is more than a sort of the
\* boundary list
BatchSteps ==
    \/ RPOpenFail \/ RPDetect \/ RPSparse \/ RPProblemOnly \/ RPMergedShort
    \/ RPMergedCut \/ RPNoListing \/ RPListing
    \/ FBBegin \/ FBScan
    \/ RPNoBoundaries \/ RPDryRun \/ RPSplit \/ RPSplitRet
    \/ OcrRun \/ OcrDone \/ RPExtend \/ RPNextDoc \/ RPReport
    \/ ETOpenFail \/ ETNoProblems \/ ETOpen \/ ETNoBoundaries \/ ETTopics
    \/ ETOcrDone
    \/ TBBegin \/ TBScan
    \/ XROpenFail \/ XRNoBounds \/ XRNoSessions
    \/ XRSession \/ KScan \/ IScan
    \/ XRSessionNoBounds \/ XRDryRun \/ XRSplit \/ XRSplitRet \/ XROcrRun
    \/ XROcrDone \/ XRExtend \/ XRClose
    \/ BKOpenFail \/ BKFind \/ BKNoQuestions \/ BKDryRun \/ BKSplit

\* The loop is one thread that runs each statement to its end; the only
\* blocking call, the OCR subprocess, is bounded by its timeout.
\* FBMenti, FBFinish, TBMenti and TBFinish, and XRScan, XRHeader, XRFind,
\* KBegin, KFinish, IBegin and IFinish of split_exam, are taken on the
\* control variable alone: each is the only step that leaves its control
\* point under its guard, so being fair to that move of pc is being fair to
\* the action.
BatchSpec ==
    /\ BatchInit
    /\ [][BatchNext]_vars
    /\ WF_vars(BatchSteps)
    /\ WF_pc(pc = "fb_call" /\ detect_format(cur) = "menti" /\ pc' = "fb_ret")
    /\ WF_pc(pc = "fb_scan" /\ pos[1] >= Len(cur) /\ pc' = "fb_ret")
    /\ WF_pc(pc = "tb_call" /\ detect_pdf_format(cur) = "menti" /\ pc' = "tb_ret")
    /\ WF_pc(pc = "tb_scan" /\ pos[1] >= Len(cur) /\ pc' = "tb_ret")
    /\ WF_pc(pc = "xr_open" /\ batch[idx].ok /\ source = "dongkihoe" /\ pc' = "xr_groups")
    /\ WF_pc(pc = "xr_open" /\ batch[idx].ok /\ source # "dongkihoe" /\ pc' = "xr_sess")
    /\ WF_pc(pc = "xfb_call" /\ source = "KPC" /\ pc' = "k_scan")
    /\ WF_pc(pc = "xfb_call" /\ source = "ITPE" /\ pc' = "i_scan")
    /\ WF_pc(pc \in {"k_scan", "i_scan"} /\ pos[1] > sess.end /\ pc' = "xfb_ret")

\* ---- find_boundaries called with the listing get_problem_list gives
\* a topic start on line 7, the last line the bare scan reads, with a title
\* that is empty once its bracketed part is removed and the label 'Keyword'
\* on the last line of its window
KeywordPage == Page(250, FALSE, <<Item(7, 1, 0), Label(14, "other")>>)

BarePages ==
    {KeywordPage, StrongPage(1), StrongPage(2), TwoTopics, InlineLate, SelIntent,
     CardFront, CardRun, NoSignalPage, ShortPage, FillPage, ShortTitled,
     IndentedListPage}

BareDocs == SeqsUpTo(BarePages, MaxPages)

\* find_boundaries as run_pipeline calls it: the file is not sparse, not a
\* problem list alone and not merged with too short a primary part, doc is
\* the primary part of a merged file, and the listing is not empty
InitListed ==
    /\ mode = "fb"
    /\ source = "none"
    /\ \E d \in BareDocs :
          /\ detect_format(d) \notin {"sparse", "problem_only"}
          /\ detect_format(d) = "merged" => ~too_short(merge_page(d))
          /\ doc = IF detect_format(d) = "merged" THEN fb_doc(d) ELSE d
    /\ problems = get_problem_list(doc)
    /\ problems # <<>>
    /\ sess = NoSession
    /\ pc = "fb_call"
    /\ NoBatch
    /\ InitCommon

ListedNext == FBBegin \/ FBMenti \/ FBScan \/ FBFinish

ListedSpec == InitListed /\ [][ListedNext]_vars

\* ------------------------------------------------------------ the properties
\* boundary location has returned (the list is final from then on)
Returned ==
    \/ pc \in {"fb_ret", "xfb_ret", "tb_ret"}
    \/ pc = "done" /\ "find_boundaries" \in calls

\* split_and_ocr.find_boundaries or extract_topics.find_topic_boundaries has
\* returned
FBReturned == mode \in {"fb", "review", "topics"} /\ Returned

\* the document is not in the card format, so the scan loop runs
Scanned ==
    IF mode = "topics" THEN detect_pdf_format(cur) # "menti"
    ELSE detect_format(cur) # "menti"

InRange(b, p) == b.page_idx <= p /\ p <= b.page_end

\* The lines the scan loop of find_boundaries tests against the listing, each
\* with its score
Cands ==
    UNION { { [num |-> cur[pi + 1].ents[i].num, page_idx |-> pi,
               line_idx |-> cur[pi + 1].ents[i].li,
               score |-> IF mode = "topics"
                         THEN topic_score(cur[pi + 1], cur[pi + 1].ents[i],
                                  ptitles(problems)[cur[pi + 1].ents[i].num])
                         ELSE score_of(cur[pi + 1], cur[pi + 1].ents[i],
                                  ptitles(problems)[cur[pi + 1].ents[i].num])] :
              i \in {k \in 1..Len(cur[pi + 1].ents) :
                        /\ cur[pi + 1].ents[k].kind = "item"
                        /\ cur[pi + 1].ents[k].num \in pnums(problems)} } :
            pi \in {q \in (IF mode = "topics"
                         THEN scan_start(detect_pdf_format(cur))
                         ELSE scan_start(detect_format(cur)))..(Len(cur) - 1) :
                        cur[q + 1].chars >= 30} }

Before(a, b) ==
    \/ a.page_idx < b.page_idx
    \/ a.page_idx = b.page_idx /\ a.line_idx < b.line_idx

\* split_exam: the boundary list is not in the page loop of a locator (it
\* is empty, or the list a locator or scan_dongkihoe_all returned)
ExamListFinal ==
    /\ mode \in {"exam_fb", "exam_run", "exam_batch"}
    /\ pc \notin {"k_scan", "i_scan"}

\* C1: every returned boundary has start page <= end page, in the review
\* pipeline and after _assign_boundary_ends in the exam pipeline (KPC, ITPE
\* and the sources without a locator); a boundary whose end would fall before
\* its start is not in the returned list, and every record either split_pdf
\* creates covers at least one page.
C1_StartNotAfterEnd ==
    /\ (Returned \/ ExamListFinal) =>
          \A i \in 1..Len(boundaries) :
              boundaries[i].page_idx <= boundaries[i].page_end
    /\ \A i \in 1..Len(results) :
          /\ results[i].from_page <= results[i].to_page
          /\ results[i].pages >= 1
    /\ \A k \in 1..Len(all_results) :
          /\ all_results[k].rec.from_page <= all_results[k].rec.to_page
          /\ all_results[k].rec.pages >= 1

\* the exam pipeline has written the records of a session in which a matched
\* question was dropped because the next question starts on the same page
C1_Witness ==
    /\ mode = "exam_run"
    /\ source = "KPC"
    /\ pc = "xr_ocr"
    /\ results # <<>>
    /\ \E pi \in (sess.start + 1)..Min(sess.end, Len(doc) - 1) :
          \E k \in 1..Len(doc[pi + 1].ents) :
              /\ kpc_match(doc[pi + 1], doc[pi + 1].ents[k])
              /\ \A i \in 1..Len(boundaries) :
                    boundaries[i].num # doc[pi + 1].ents[k].num

\* C2 (as stated): no page lies in the ranges of two different boundaries.
C2_NoSharedPage ==
    Returned =>
        \A i, j \in 1..Len(boundaries) :
            i # j =>
                \A p \in 0..(Len(doc) - 1) :
                    ~(InRange(boundaries[i], p) /\ InRange(boundaries[j], p))

\* C2 (amended): a page lies in the ranges of two different boundaries only
\* if both boundaries start on that page; boundaries that start on different
\* pages have disjoint ranges.
C2_SharedOnlyStartPage ==
    Returned =>
        \A i, j \in 1..Len(boundaries) :
            i # j =>
                \A p \in 0..(Len(doc) - 1) :
                    InRange(boundaries[i], p) /\ InRange(boundaries[j], p)
                        => /\ boundaries[i].page_idx = p
                           /\ boundaries[j].page_idx = p

\* two boundaries that start on one page and both hold it
C2_Witness ==
    /\ FBReturned
    /\ \E i, j \in 1..Len(boundaries) :
          /\ i < j
          /\ boundaries[i].page_idx = boundaries[j].page_idx
          /\ InRange(boundaries[i], boundaries[i].page_idx)
          /\ InRange(boundaries[j], boundaries[i].page_idx)

\* C3 (as stated): in the returned list the numbers are ascending.
C3_NumbersAscending ==
    FBReturned =>
        \A i, j \in 1..Len(boundaries) :
            i < j => boundaries[i].num < boundaries[j].num

\* C3 (amended): the returned list is in ascending order of position (start
\* page, then line, then number for the card format whose boundaries all carry
\* line 0), and its numbers are pairwise different; the numbers follow the
\* order of the markers in the document, not the order of the listing.
C3_OrderedByPosition ==
    FBReturned =>
        \A i, j \in 1..Len(boundaries) :
            i < j =>
                /\ boundaries[i].num # boundaries[j].num
                /\ \/ Before(boundaries[i], boundaries[j])
                   \/ /\ boundaries[i].page_idx = boundaries[j].page_idx
                      /\ boundaries[i].line_idx = boundaries[j].line_idx
                      /\ boundaries[i].num < boundaries[j].num

\* a returned list in which a higher number stands before a lower one
C3_Witness ==
    /\ FBReturned
    /\ \E i, j \in 1..Len(boundaries) :
          /\ i < j
          /\ boundaries[i].num > boundaries[j].num
          /\ Before(boundaries[i], boundaries[j])

\* the end _set_page_ends computes before its trim step
NominalEnd(i) ==
    IF i < Len(boundaries)
    THEN (IF boundaries[i + 1].page_idx > boundaries[i].page_idx
          THEN boundaries[i + 1].page_idx - 1
          ELSE boundaries[i + 1].page_idx)
    ELSE Len(cur) - 1

\* the trim step applies to boundary i
Trims(i) ==
    /\ NominalEnd(i) > boundaries[i].page_idx
    /\ \E k \in 1..Len(cur[NominalEnd(i) + 1].ents) :
          cur[NominalEnd(i) + 1].ents[k].kind = "sel"

\* C4 (as stated): after _set_page_ends, trim included, end[i] is
\* start[i+1] - 1 when start[i+1] > start[i], else start[i+1], and the last
\* end is the last page index.
C4_EndFromNextStart ==
    FBReturned =>
        \A i \in 1..Len(boundaries) : boundaries[i].page_end = NominalEnd(i)

\* C4 (amended): end[i] is that value, except that it is one page less when
\* the page at that value carries the listing marker and lies after start[i].
C4_EndFromNextStartOrTrimmed ==
    FBReturned =>
        \A i \in 1..Len(boundaries) :
            boundaries[i].page_end =
                IF Trims(i) THEN NominalEnd(i) - 1 ELSE NominalEnd(i)

\* a returned list with a trimmed boundary followed by another boundary
C4_Witness ==
    /\ FBReturned
    /\ \E i \in 1..Len(boundaries) :
          /\ i < Len(boundaries)
          /\ Trims(i)
          /\ boundaries[i].page_end = boundaries[i + 1].page_idx - 2

\* the returned boundaries start on pairwise different pages
DistinctStarts ==
    \A i, j \in 1..Len(boundaries) :
        i # j => boundaries[i].page_idx # boundaries[j].page_idx

\* no page after the first carries the listing marker
NoRepeatedListing ==
    \A pi \in 1..(Len(cur) - 1) :
        \A k \in 1..Len(cur[pi + 1].ents) : cur[pi + 1].ents[k].kind # "sel"

\* C5: when the returned boundaries start on pairwise different pages and no
\* page repeats the listing marker, every page from the first start to the
\* last page lies in exactly one range; the 10-page document with starts on
\* pages 0, 4, 7 yields [0,3], [4,6], [7,9].
C5_RangesTile ==
    /\ (FBReturned /\ boundaries # <<>> /\ DistinctStarts /\ NoRepeatedListing) =>
          \A p \in boundaries[1].page_idx..(Len(cur) - 1) :
              Cardinality({i \in 1..Len(boundaries) : InRange(boundaries[i], p)}) = 1
    /\ (FBReturned /\ doc = ExampleDoc /\ problems = ExampleListing) =>
          [i \in 1..Len(boundaries) |->
              <<boundaries[i].page_idx, boundaries[i].page_end>>]
            = << <<0, 3>>, <<4, 6>>, <<7, 9>> >>

\* the 10-page document after find_boundaries has returned its three ranges
C5_Witness ==
    /\ FBReturned
    /\ Len(cur) = 10
    /\ Len(boundaries) = 3
    /\ DistinctStarts
    /\ NoRepeatedListing
    /\ boundaries[1].page_idx = 0 /\ boundaries[3].page_end = 9

\* C6: of the scanned lines that carry one number, the returned boundary is
\* the one with the highest score, the first in (page, line) order among those
\* with the highest score; a number with a line of score >= 3 has a boundary,
\* and no other line of that number is in the list.
C6_HighestScoreFirstWins ==
    (FBReturned /\ Scanned) =>
        /\ \A i \in 1..Len(boundaries) :
              LET b == boundaries[i]
              IN  /\ \E c \in Cands :
                        /\ c.num = b.num /\ c.score = b.score
                        /\ c.page_idx = b.page_idx /\ c.line_idx = b.line_idx
                  /\ \A c \in Cands :
                        c.num = b.num =>
                            \/ c.score < b.score
                            \/ c.score = b.score /\ ~Before(c, b)
                  /\ \A j \in 1..Len(boundaries) :
                        boundaries[j].num = b.num => j = i
        /\ \A c \in Cands :
              c.score >= 3 => \E i \in 1..Len(boundaries) : boundaries[i].num = c.num

\* a number with an accepted earlier line and an equal-score later line, and
\* another returned boundary that replaced a lower-scoring earlier line
C6_Witness ==
    /\ FBReturned
    /\ Scanned
    /\ \E i \in 1..Len(boundaries) :
          \E c \in Cands :
              /\ c.num = boundaries[i].num
              /\ c.score = boundaries[i].score
              /\ Before(boundaries[i], c)
    /\ \E i \in 1..Len(boundaries) :
          \E c \in Cands :
              /\ c.num = boundaries[i].num
              /\ c.score >= 3
              /\ c.score < boundaries[i].score
              /\ Before(c, boundaries[i])

\* an intent/approach label in the 8-line window that starts at line li
LabelNear(pi, li) ==
    \E k \in 1..Len(cur[pi + 1].ents) :
        /\ cur[pi + 1].ents[k].kw \in {"intent", "approach"}
        /\ li <= cur[pi + 1].ents[k].li
        /\ cur[pi + 1].ents[k].li <= li + 7

\* the first five characters of the listing title of number n, which is not
\* empty once bracketed parts are removed, are those of the found title
PrefixAgrees(n, found) ==
    ptitles(problems)[n] # 0 /\ ptitles(problems)[n] = found

\* the title test of the script that runs: split_and_ocr wants a non-empty
\* listing title with the same first five characters; extract_topics wants the
\* same first five characters (empty or not) or one of the listing title's
\* first three words, longer than two characters, inside the found title
TitleAgrees(n, found) ==
    IF mode = "topics"
    THEN \/ ptitles(problems)[n] = found
         \/ title_words(ptitles(problems)[n]) \cap title_words(found) # {}
    ELSE PrefixAgrees(n, found)

SumOfSignals(label, top, title) ==
    (IF label THEN 10 ELSE 0) + (IF top THEN 3 ELSE 0) + (IF title THEN 5 ELSE 0)

\* the lines the scan tests: <<page, entry>> of every "N. title" line with a
\* listed number on a scanned page of at least 30 characters
ScannedLines ==
    {x \in UNION {{<<pi, k>> : k \in 1..Len(cur[pi + 1].ents)} :
                     pi \in 0..(Len(cur) - 1)} :
        /\ x[1] >= (IF mode = "topics" THEN scan_start(detect_pdf_format(cur))
                    ELSE scan_start(detect_format(cur)))
        /\ cur[x[1] + 1].chars >= 30
        /\ cur[x[1] + 1].ents[x[2]].kind = "item"
        /\ cur[x[1] + 1].ents[x[2]].num \in pnums(problems)}

BoundaryAt(x) ==
    {i \in 1..Len(boundaries) :
        /\ boundaries[i].page_idx = x[1]
        /\ boundaries[i].line_idx = cur[x[1] + 1].ents[x[2]].li}

\* C7 (as stated): the score of a boundary is 10 (label in the window) + 3
\* (line index < 10) + 5 (title prefix agrees with the listing title), a line
\* becomes a boundary only with a score >= 3, and a line that reaches 3 gets
\* its number a boundary.  Two titles that are both empty once bracketed parts
\* are removed may count as agreeing or not.
C7_ScoreWithPrefixOnly ==
    (mode \in {"fb", "review", "topics"} /\ Scanned) =>
        \A x \in ScannedLines :
            LET e == cur[x[1] + 1].ents[x[2]]
                sc == SumOfSignals(LabelNear(x[1], e.li), e.li < 10,
                                   PrefixAgrees(e.num, e.tp))
                bothEmpty == ptitles(problems)[e.num] = 0 /\ e.tp = 0
            IN  /\ \A i \in BoundaryAt(x) :
                      /\ \/ boundaries[i].score = sc
                         \/ bothEmpty /\ boundaries[i].score = sc + 5
                      /\ boundaries[i].score >= 3
                /\ (FBReturned /\ sc >= 3) =>
                      \E i \in 1..Len(boundaries) : boundaries[i].num = e.num

\* C7 (amended): the same with the title test of the script that runs: in
\* extract_topics.find_topic_boundaries the 5 points are also given for a
\* shared word or for two titles that are both empty once bracketed parts are
\* removed.  A line with none of the three signals is never a boundary, a
\* line with a label and the title signal has at least 13, and a line with the
\* title signal alone has exactly 5 and its number gets a boundary.
C7_ScoreWithTitleTest ==
    (mode \in {"fb", "review", "topics"} /\ Scanned) =>
        \A x \in ScannedLines :
            LET e == cur[x[1] + 1].ents[x[2]]
                label == LabelNear(x[1], e.li)
                title == TitleAgrees(e.num, e.tp)
                sc == SumOfSignals(label, e.li < 10, title)
            IN  /\ \A i \in BoundaryAt(x) :
                      /\ boundaries[i].score = sc
                      /\ sc >= 3
                      /\ label \/ e.li < 10 \/ title
                      /\ (label /\ title) => boundaries[i].score >= 13
                      /\ (title /\ ~label /\ e.li >= 10) => boundaries[i].score = 5
                /\ (FBReturned /\ sc >= 3) =>
                      \E i \in 1..Len(boundaries) : boundaries[i].num = e.num

\* extract_topics returned a boundary of score 5 for a line away from the top
\* whose title shares only a word with the listing title, next to a boundary
\* of at least 13
C7_Witness ==
    /\ mode = "topics"
    /\ pc = "tb_ret"
    /\ Scanned
    /\ \E x \in ScannedLines :
          LET e == cur[x[1] + 1].ents[x[2]]
          IN  /\ ~PrefixAgrees(e.num, e.tp)
              /\ e.li >= 10
              /\ \E i \in BoundaryAt(x) :
                    boundaries[i].num = e.num /\ boundaries[i].score = 5
    /\ \E i \in 1..Len(boundaries) : boundaries[i].score >= 13

\* the session a boundary or a record belongs to (0: the document has none)
SessionOf(b) ==
    IF "detected_session" \in DOMAIN b THEN b.detected_session
    ELSE IF "session" \in DOMAIN b THEN b.session
    ELSE 0

\* the boundary list holds a number at most once per session
OnePerNumber ==
    \A i, j \in 1..Len(boundaries) :
        (boundaries[i].num = boundaries[j].num
         /\ SessionOf(boundaries[i]) = SessionOf(boundaries[j])) => i = j

\* no two records of one document share (session, number)
RecordsDistinct ==
    /\ \A i, j \in 1..Len(results) :
          results[i].q_num = results[j].q_num => i = j
    /\ \A i, j \in 1..Len(all_results) :
          (all_results[i].src = all_results[j].src
           /\ all_results[i].rec.q_num = all_results[j].rec.q_num
           /\ SessionOf(all_results[i].rec) = SessionOf(all_results[j].rec)) => i = j

\* C8 (as stated): at every point of the scan and in the result the boundary
\* list of a document or of a session holds at most one boundary per number,
\* and no two records of one document share (session, number).
C8_OneBoundaryPerNumber == OnePerNumber /\ RecordsDistinct

\* C8: find_boundaries, _boundaries_menti and _bounds_kpc hold at most one
\* boundary per number at every point; _bounds_itpe appends one boundary per
\* page whatever its number, so its list can hold a number twice during the
\* page loop, and holds each number once when the locator returns; no two
\* records of one document share (session, number).
C8_OnePerNumberButInItpeLoop ==
    /\ pc # "i_scan" => OnePerNumber
    /\ RecordsDistinct

\* the records of an ITPE session in which two pages carry the same question
\* number
C8_Witness ==
    /\ mode = "exam_run"
    /\ source = "ITPE"
    /\ pc = "xr_ocr"
    /\ results # <<>>
    /\ \E p1, p2 \in (sess.start + 1)..Min(sess.end, Len(doc) - 1) :
          /\ p1 < p2
          /\ itpe_best(doc[p1 + 1], problems) # 0
          /\ itpe_best(doc[p2 + 1], problems) # 0
          /\ doc[p1 + 1].ents[itpe_best(doc[p1 + 1], problems)].num
               = doc[p2 + 1].ents[itpe_best(doc[p2 + 1], problems)].num

\* the same for split_and_ocr: records written for a document in which two
\* accepted lines carry one number
ReviewDuplicateReached ==
    /\ mode = "review"
    /\ pc = "done"
    /\ results # <<>>
    /\ detect_format(cur) # "menti"
    /\ \E c1, c2 \in Cands :
          /\ c1.num = c2.num /\ Before(c1, c2)
          /\ c1.score >= 3 /\ c2.score > c1.score

\* C9: a one-page document is classified problem_only whatever its text; the
\* pipeline records the failure and never calls listing extraction, boundary
\* detection or splitting for it.
C9_OnePageProblemOnly ==
    (mode = "review" /\ Len(doc) = 1) =>
        /\ detect_format(doc) = "problem_only"
        /\ pc \in {"rp_open", "rp_fmt", "done"}
        /\ calls = {}
        /\ boundaries = <<>>
        /\ results = <<>>
        /\ pc = "done" => failed = <<"problem list only (no answers)">>

\* a one-page document with card markers, after its failure is recorded
C9_Witness ==
    /\ mode = "review"
    /\ Len(doc) = 1
    /\ HasCard(doc[1])
    /\ pc = "done"
    /\ failed # <<>>

\* the first page from index 2 on that carries the secondary-source signature
SplitPageIs(k) ==
    /\ Len(doc) > k
    /\ doc[k + 1].sig
    /\ \A q \in 2..(k - 1) : ~doc[q + 1].sig

\* C10: a merged document whose split page is index 2 gets the too-short
\* failure and no record; no record of a merged document has an empty range.
C10_MergedTooShort ==
    (mode = "review" /\ detect_format(doc) = "merged") =>
        /\ SplitPageIs(2) =>
              /\ results = <<>>
              /\ "split_pdf" \notin calls
              /\ pc = "done" => failed = <<"merged: FB portion too short">>
        /\ \A i \in 1..Len(results) :
              results[i].pages >= 1 /\ results[i].to_page >= results[i].from_page

\* a merged document with its split page at index 2, after the failure
C10_Witness ==
    /\ mode = "review"
    /\ detect_format(doc) = "merged"
    /\ SplitPageIs(2)
    /\ pc = "done"
    /\ failed = <<"merged: FB portion too short">>

\* C11: for a merged document every boundary and every written page range
\* lies before the split page, although split_pdf copies the pages out of the
\* whole file.
C11_MergedStaysInPrimary ==
    (mode = "review" /\ detect_format(doc) = "merged") =>
        /\ Returned =>
              \A i \in 1..Len(boundaries) :
                  /\ boundaries[i].page_idx < merge_page(doc)
                  /\ boundaries[i].page_end < merge_page(doc)
        /\ \A i \in 1..Len(results) :
              /\ results[i].from_page < merge_page(doc)
              /\ results[i].to_page < merge_page(doc)

\* a merged document with pages after the split page, and a topic written
C11_Witness ==
    /\ mode = "review"
    /\ detect_format(doc) = "merged"
    /\ merge_page(doc) < Len(doc)
    /\ pc = "done"
    /\ "split_pdf" \in calls
    /\ results # <<>>

\* the text of the first min(5, page_count) pages is below 200 characters
LowText(d) == total_text(d, Min(5, Len(d))) < 200

\* C12: every document of two or more pages whose first min(5, page_count)
\* pages hold less than 200 characters is classified sparse.
C12_LowTextIsSparse ==
    (mode = "review" /\ pc = "rp_fmt" /\ Len(doc) >= 2 /\ LowText(doc)) =>
        fmt = "sparse"

\* C13: while the variant run_pipeline holds is sparse (after the first
\* classification or after the classification of the cut-out primary part)
\* neither get_problem_list nor find_boundaries has run, and the document ends
\* with the image-only failure.
C13_SparseShortCircuits ==
    (mode = "review" /\ fmt = "sparse") =>
        /\ "get_problem_list" \notin calls
        /\ "find_boundaries" \notin calls
        /\ pc = "done" => failed = <<"sparse/image-only (needs OCR)">>

\* the conditions of the rules of detect_format, each taken alone
OnePage(d) == Len(d) = 1

SparseRule(d) == LowText(d) /\ Len(d) > 3

SignatureLater(d) == \E pi \in 2..(Min(6, Len(d)) - 1) : d[pi + 1].sig

MergedRule(d) == HasSelect(d[1]) /\ SignatureLater(d)

Variants == {"problem_only", "sparse", "merged", "menti", "standard", "inline", "bare"}

\* C14: the classification is one of the seven variants, and it is the one of
\* the first rule whose condition holds in the order problem_only, sparse,
\* merged, card, standard/inline, bare.
C14_FirstRuleWins ==
    (mode = "review" /\ pc = "rp_fmt") =>
        /\ fmt \in Variants
        /\ fmt = "problem_only" <=> OnePage(doc)
        /\ fmt = "sparse" <=> (~OnePage(doc) /\ SparseRule(doc))
        /\ fmt = "merged" <=>
              (~OnePage(doc) /\ ~SparseRule(doc) /\ MergedRule(doc))
        /\ fmt = "menti" <=>
              (~OnePage(doc) /\ ~SparseRule(doc) /\ ~MergedRule(doc) /\ HasCard(doc[1]))
        /\ fmt \in {"standard", "inline"} <=>
              (~OnePage(doc) /\ ~SparseRule(doc) /\ ~MergedRule(doc)
                  /\ ~HasCard(doc[1]) /\ HasSelect(doc[1]))
        /\ fmt = "bare" <=>
              (~OnePage(doc) /\ ~SparseRule(doc) /\ ~HasCard(doc[1]) /\ ~HasSelect(doc[1]))

\* select marker and card markers on the first page, the signature on a
\* later page: classified merged
C14_Witness ==
    /\ mode = "review"
    /\ pc = "rp_fmt"
    /\ HasSelect(doc[1])
    /\ HasCard(doc[1])
    /\ SignatureLater(doc)
    /\ fmt = "merged"

\* C15 as stated: a document classified by the select-marker rule is standard
\* exactly when the first two pages together hold at least 4 enumerated
\* lines or the first page has no intent/approach marker, and inline otherwise.
C15_CountOnTwoPages ==
    (mode = "review" /\ pc = "rp_fmt" /\ fmt \in {"standard", "inline"}) =>
        (fmt = "standard" <=>
            \/ nums_found(doc[1]) + nums_found(doc[2]) >= 4
            \/ ~HasIntentOrApproach(doc[1]))

\* C15: a document classified by the select-marker rule is standard exactly
\* when the first page holds at least 4 enumerated lines or has no
\* intent/approach marker, and inline otherwise.
C15_CountOnFirstPage ==
    (mode = "review" /\ pc = "rp_fmt" /\ fmt \in {"standard", "inline"}) =>
        (fmt = "standard" <=>
            \/ nums_found(doc[1]) >= 4
            \/ ~HasIntentOrApproach(doc[1]))

\* four enumerated lines and a marker on the first page: standard
C15_Witness ==
    /\ mode = "review"
    /\ pc = "rp_fmt"
    /\ nums_found(doc[1]) >= 4
    /\ HasIntentOrApproach(doc[1])
    /\ fmt = "standard"

\* four numbers without a title are four lines of the count: standard
DotLinesCountedReached ==
    /\ mode = "review"
    /\ pc = "rp_fmt"
    /\ doc[1] = DotListPage
    /\ fmt = "standard"

\* four indented lines of the listing are none of the count: inline
IndentedNotCountedReached ==
    /\ mode = "review"
    /\ pc = "rp_fmt"
    /\ doc[1] = IndentedListPage
    /\ fmt = "inline"

\* the documents of the batch that have been processed to their end
Finished == IF pc \in {"done", "end"} THEN 1..idx ELSE 1..(idx - 1)

\* what a record says of the boundary it was written for
RecKey(r) == [q_num |-> r.q_num, q_title |-> r.q_title,
              from_page |-> r.from_page, to_page |-> r.to_page]

\* the records and the failure reasons the batch holds for document i
RecordsOf(i) ==
    LET own == SelectSeq(all_results, LAMBDA a : a.src = i)
    IN  [k \in 1..Len(own) |-> RecKey(own[k].rec)]

ReasonsOf(i) == {failed[k] : k \in {j \in 1..Len(failed) : failed_pdf[j] = i}}

\* C16: in a batch, the listing and the boundaries of a document are those
\* the functions give for that document alone (both dispatch on the variant
\* of one and the same document object), whatever was processed before it;
\* two documents of the batch with the same pages end with the same records
\* and the same failure reasons.
C16_SameDocumentSameResult ==
    mode = "batch" =>
        /\ pc = "rp_fmt" => fmt = detect_format(doc)
        /\ pc \in {"fb_call", "fb_scan", "fb_ret"} => problems = get_problem_list(cur)
        /\ pc = "fb_ret" => boundaries = find_boundaries(cur, get_problem_list(cur))
        /\ \A i, j \in Finished :
              batch[i] = batch[j] =>
                  RecordsOf(i) = RecordsOf(j) /\ ReasonsOf(i) = ReasonsOf(j)

\* the same document twice in a batch, both processed, with records
C16_Witness ==
    /\ mode = "batch"
    /\ pc = "end"
    /\ Len(batch) = 2
    /\ batch[1] = batch[2]
    /\ RecordsOf(1) # <<>>
    /\ RecordsOf(2) = RecordsOf(1)

\* document i of the batch has a record, or an entry in the failure list
HasRecord(i) == \E k \in 1..Len(all_results) : all_results[k].src = i

HasReason(i) == \E k \in 1..Len(failed_pdf) : failed_pdf[k] = i

\* C17: at the end of a batch every document has at least one topic record
\* or at least one entry with a reason in the failure list.
C17_RecordOrReason ==
    (mode \in {"batch", "topics_batch", "exam_batch", "books_batch"} /\ pc = "end") =>
        \A i \in 1..Len(batch) : HasRecord(i) \/ HasReason(i)

\* the same for split_and_ocr.run_pipeline without dry_run alone
SplitterRecordOrReason ==
    (mode = "batch" /\ ~opts.dry_run /\ pc = "end") =>
        \A i \in 1..Len(batch) : HasRecord(i) \/ HasReason(i)

\* the same for split_exam.run_pipeline with do_split alone
ExamRecordOrReason ==
    (mode = "exam_batch" /\ ~opts.dry_run /\ pc = "end") =>
        \A i \in 1..Len(batch) : HasRecord(i) \/ HasReason(i)

\* the same for split_600.run_pipeline without dry_run alone
BooksRecordOrReason ==
    (mode = "books_batch" /\ ~opts.dry_run /\ pc = "end") =>
        \A i \in 1..Len(batch) : HasRecord(i) \/ HasReason(i)

\* what run_pipeline gives for the pdf alone: the reason of its failure
\* ("" for none) and the records of its topics
AloneReason(pdf) ==
    LET d == pdf.pages
        f == detect_format(d)
        c == IF f = "merged" THEN fb_doc(d) ELSE d
    IN  IF ~pdf.ok THEN "open error"
        ELSE IF f = "sparse" THEN "sparse/image-only (needs OCR)"
        ELSE IF f = "problem_only" THEN "problem list only (no answers)"
        ELSE IF f = "merged" /\ merge_page(d) <= 2 THEN "merged: FB portion too short"
        ELSE IF get_problem_list(c) = <<>> THEN "no problem list"
        ELSE IF find_boundaries(c, get_problem_list(c)) = <<>> THEN "no boundaries"
        ELSE ""

AloneRecords(pdf) ==
    LET d == pdf.pages
        c == IF detect_format(d) = "merged" THEN fb_doc(d) ELSE d
        rs == split_pdf(d, find_boundaries(c, get_problem_list(c)))
    IN  IF AloneReason(pdf) # "" \/ opts.dry_run THEN <<>>
        ELSE [k \in 1..Len(rs) |-> RecKey(rs[k])]

\* what process_single_pdf gives for the pdf alone: number and pages per topic
TopicKey(t) == [q_num |-> t.q_num, page_start |-> t.page_start, page_end |-> t.page_end]

AloneTopics(pdf) ==
    LET d == pdf.pages
        bs == find_topic_boundaries(d, extract_problem_list(d))
    IN  IF ~pdf.ok THEN <<>>
        ELSE [k \in 1..Len(bs) |->
                [q_num |-> bs[k].num, page_start |-> bs[k].page_idx + 1,
                 page_end |-> bs[k].page_end + 1]]

TopicsOf(i) ==
    LET own == SelectSeq(all_results, LAMBDA a : a.src = i)
    IN  [k \in 1..Len(own) |-> TopicKey(own[k].rec)]

\* what split_exam.run_pipeline gives for the pdf alone: the sessions it is
\* cut into, the reasons of its failures (one per session without a
\* boundary) and the records of its questions, session after session
exam_sessions(pdf) ==
    IF pdf.file_session # 0 THEN file_sessions(pdf.pages, pdf.file_session)
    ELSE find_sessions(pdf.pages, pdf.source)

session_bounds(pdf, s) ==
    exam_find_boundaries(pdf.pages, session_listing(pdf.pages, s), s, pdf.source)

AloneExamReasons(pdf) ==
    IF ~pdf.ok THEN {"open error"}
    ELSE IF pdf.source = "dongkihoe"
    THEN (IF scan_dongkihoe_all(pdf.pages) = <<>> THEN {"no bounds"} ELSE {})
    ELSE IF exam_sessions(pdf) = <<>> THEN {"no sessions"}
    ELSE {ToString(s.session) \o "gyosi no bounds" :
              s \in {x \in Range(exam_sessions(pdf)) : session_bounds(pdf, x) = <<>>}}

ExamRecKey(r) == [session |-> r.session, q_num |-> r.q_num, q_title |-> r.q_title,
                  from_page |-> r.from_page, to_page |-> r.to_page]

RECURSIVE group_records(_, _, _)
group_records(d, bs, keys) ==
    IF keys = <<>> THEN <<>>
    ELSE split_pdf_session(d, by_sess(bs, Head(keys)), Head(keys))
         \o group_records(d, bs, Tail(keys))

RECURSIVE session_records(_, _)
session_records(pdf, ss) ==
    IF ss = <<>> THEN <<>>
    ELSE split_pdf_session(pdf.pages, session_bounds(pdf, Head(ss)), Head(ss).session)
         \o session_records(pdf, Tail(ss))

AloneExamRecords(pdf) ==
    LET rs == IF pdf.source = "dongkihoe"
              THEN group_records(pdf.pages, scan_dongkihoe_all(pdf.pages),
                                 session_keys(scan_dongkihoe_all(pdf.pages)))
              ELSE session_records(pdf, exam_sessions(pdf))
    IN  IF ~pdf.ok \/ opts.dry_run THEN <<>>
        ELSE [k \in 1..Len(rs) |-> ExamRecKey(rs[k])]

\* total += len(bounds): the boundaries found in the pdf alone
RECURSIVE session_total(_, _)
session_total(pdf, ss) ==
    IF ss = <<>> THEN 0
    ELSE Len(session_bounds(pdf, Head(ss))) + session_total(pdf, Tail(ss))

AloneExamTotal(pdf) ==
    IF ~pdf.ok THEN 0
    ELSE IF pdf.source = "dongkihoe" THEN Len(scan_dongkihoe_all(pdf.pages))
    ELSE session_total(pdf, exam_sessions(pdf))

RECURSIVE batch_total(_)
batch_total(b) == IF b = <<>> THEN 0 ELSE AloneExamTotal(Head(b)) + batch_total(Tail(b))

ExamRecordsOf(i) ==
    LET own == SelectSeq(all_results, LAMBDA a : a.src = i)
    IN  [k \in 1..Len(own) |-> ExamRecKey(own[k].rec)]

\* what split_600.run_pipeline gives for the book alone
AloneBookReason(pdf) ==
    IF ~pdf.ok THEN "open error"
    ELSE IF find_questions(pdf.pages) = <<>> THEN "no questions found"
    ELSE ""

AloneBookRecords(pdf) ==
    LET rs == split_pdf_600(pdf.pages, find_questions(pdf.pages))
    IN  IF AloneBookReason(pdf) # "" \/ opts.dry_run THEN <<>>
        ELSE [k \in 1..Len(rs) |-> RecKey(rs[k])]

\* total_questions: the questions found in the books that could be opened
RECURSIVE books_total(_)
books_total(b) ==
    IF b = <<>> THEN 0
    ELSE (IF Head(b).ok THEN Len(find_questions(Head(b).pages)) ELSE 0)
         + books_total(Tail(b))

\* the batch is over and every document of it has the outcome it has alone
BatchOverAsAlone ==
    /\ pc = "end"
    /\ idx = Len(batch)
    /\ mode = "books_batch" =>
          /\ tot.topics = books_total(batch)
          /\ \A i \in 1..Len(batch) :
              /\ ReasonsOf(i) = {AloneBookReason(batch[i])} \ {""}
              /\ RecordsOf(i) = AloneBookRecords(batch[i])
    /\ mode = "exam_batch" =>
          /\ tot.topics = batch_total(batch)
          /\ \A i \in 1..Len(batch) :
              /\ ReasonsOf(i) = AloneExamReasons(batch[i])
              /\ ExamRecordsOf(i) = AloneExamRecords(batch[i])
    /\ mode = "batch" =>
          \A i \in 1..Len(batch) :
              /\ ReasonsOf(i) = {AloneReason(batch[i])} \ {""}
              /\ RecordsOf(i) = AloneRecords(batch[i])
    /\ mode = "topics_batch" =>
          /\ Len(inventory) = Len(batch)
          /\ \A i \in 1..Len(batch) :
              /\ TopicsOf(i) = AloneTopics(batch[i])
              /\ inventory[i] = [pdf |-> i, topics_found |-> Len(AloneTopics(batch[i]))]

\* C18: whatever documents of the batch fail, the batch comes to its end with
\* every document processed, and each document has the failure reason or the
\* records it has when it is processed alone.
C18_BatchRunsToItsEnd == <>BatchOverAsAlone

\* the first document failed, the second one has its records
C18_Witness ==
    /\ mode = "batch"
    /\ pc = "end"
    /\ Len(batch) = 2
    /\ HasReason(1)
    /\ HasRecord(2)
    /\ BatchOverAsAlone

\* split_exam.run_pipeline: the first pdf could not be opened, the second
\* one has a session without a boundary and a session with records
ExamBatchOverReached ==
    /\ mode = "exam_batch"
    /\ Len(batch) = 2
    /\ ~batch[1].ok
    /\ ReasonsOf(2) # {}
    /\ HasRecord(2)
    /\ BatchOverAsAlone

\* split_600.run_pipeline: the first book could not be opened, the second
\* one has its three questions, the first of them with an image page
BooksBatchOverReached ==
    /\ mode = "books_batch"
    /\ Len(batch) = 2
    /\ ReasonsOf(1) = {"open error"}
    /\ Len(RecordsOf(2)) = 3
    /\ \E k \in 1..Len(all_results) :
          all_results[k].rec.q_num = 1 /\ all_results[k].rec.needs_ocr
    /\ BatchOverAsAlone

\* C19: in a batch every open handle belongs to the document of the current
\* iteration, and between two iterations (before the document is opened, after
\* its last statement, at the report) no handle is open: each handle opened
\* for a document is closed before the next document is opened.
C19_HandlesClosedBetweenDocuments ==
    mode \in {"batch", "topics_batch", "exam_batch", "books_batch"} =>
        /\ \A h \in handles : h[1] = idx
        /\ pc \in {"rp_open", "et_open", "xr_open", "bk_open", "done", "end"} => handles = {}

\* the second document is open after a merged first document was cut, split
\* and closed
C19_Witness ==
    /\ mode = "batch"
    /\ idx = 2
    /\ handles = {<<2, "doc">>}
    /\ detect_format(batch[1].pages) = "merged"
    /\ HasRecord(1)

\* split_exam.run_pipeline: the second pdf is open after a first one whose
\* first session had no boundary and whose second session was split
ExamHandlesReached ==
    /\ mode = "exam_batch"
    /\ idx = 2
    /\ handles = {<<2, "doc">>}
    /\ \E k \in 1..Len(failed) : failed_pdf[k] = 1 /\ failed[k] = "1gyosi no bounds"
    /\ HasRecord(1)

\* split_600.run_pipeline: the second book is open after a first one that
\* was split and closed; the source handle of split_pdf is open after the
\* document's was closed
BooksHandlesReached ==
    /\ mode = "books_batch"
    /\ idx = 2
    /\ handles = {<<2, "doc">>}
    /\ HasRecord(1)

BooksSplitHandleReached ==
    /\ mode = "books_batch"
    /\ pc = "sp_ret"
    /\ handles = {<<idx, "src">>}

\* split_exam.run_pipeline: the source handle of split_pdf is open next to
\* the document's
ExamSplitHandlesReached ==
    /\ mode = "exam_batch"
    /\ pc = "xsp_ret"
    /\ handles = {<<idx, "doc">>, <<idx, "src">>}

\* the ends of an OCR run that are failures: of ocrmypdf in apply_ocr (exit
\* code 6 is a non-zero exit too), of tesseract in ocr_page
ApplyOcrFailed == {"has_text", "error", "timeout", "exception"}

OcrPageFailed == {"nonzero_text", "nonzero", "timeout", "exception"}

\* After a run of apply_ocr that ended in one of `applyFailed`: tmp_out is
\* gone, the split file is as split_pdf wrote it, and every record of the
\* document has the fields split_pdf gave it. At the end of the batch every
\* document has the records it has alone. In extract_topics a page whose
\* tesseract run ended in one of `pageFailed` adds nothing to the content of
\* the topic it was made for, the temporary image is gone, and the document
\* has the topics it has alone.
OcrFailureHarmless(applyFailed, pageFailed) ==
    /\ (mode = "batch" /\ pc = "rp_ocr" /\ ocr.st = "idle" /\ ocr.out \in applyFailed) =>
          LET written == split_pdf(doc, boundaries)
          IN  /\ ~ocr.tmp
              /\ disk[ocr.k - 1] = "split"
              /\ Len(results) = Len(written)
              /\ \A k \in 1..Len(results) :
                    \A f \in DOMAIN written[k] : results[k][f] = written[k][f]
    /\ (mode = "batch" /\ pc = "end" /\ opts.do_ocr) =>
          /\ idx = Len(batch)
          /\ \A i \in 1..Len(batch) : RecordsOf(i) = AloneRecords(batch[i])
    /\ (mode = "topics_batch" /\ pc = "done" /\ opts.do_ocr /\ HasRecord(idx)) =>
          /\ TopicsOf(idx) = AloneTopics(batch[idx])
          /\ ~ocr.tmp
          /\ \A i \in 1..Len(ocr.log) :
                LET run == ocr.log[i]
                IN  run.out \in pageFailed =>
                        results[run.k].content[run.pg - results[run.k].page_start + 2] = ""

\* C20: a failed OCR run (timeout, non-zero exit, exception) leaves the record
\* it was run for in the output with its other fields as they were, the
\* failed page adds empty text, the split file is as before the call with
\* the temporary output removed, and the batch goes on to its end.
C20_FailedOcrIsHarmless == OcrFailureHarmless(ApplyOcrFailed, OcrPageFailed)

\* the same, a tesseract run that wrote text and ended with a non-zero exit
\* code left aside
FailedOcrHarmlessButExitText ==
    OcrFailureHarmless(ApplyOcrFailed, OcrPageFailed \ {"nonzero_text"})

\* split_and_ocr: a record whose OCR run timed out is in the output at the
\* end of the batch, its file as split
FailedApplyOcrReached ==
    /\ mode = "batch"
    /\ pc = "rp_ocr"
    /\ ocr.st = "idle"
    /\ ocr.out = "timeout"
    /\ disk[ocr.k - 1] = "split"

\* extract_topics: a page whose tesseract run timed out adds nothing to its
\* topic, which is in the output
FailedOcrPageReached ==
    /\ mode = "topics_batch"
    /\ pc = "done"
    /\ opts.do_ocr
    /\ HasRecord(idx)
    /\ \E i \in 1..Len(ocr.log) :
          LET run == ocr.log[i]
          IN  /\ run.out = "timeout"
              /\ results[run.k].has_ocr_pages
              /\ results[run.k].content[run.pg - results[run.k].page_start + 2] = ""

\* extract_topics: the tesseract run of a topic in progress, the document
\* open, the temporary image on disk, nothing of the document in all_topics
\* or the inventory yet
OcrPageRunningReached ==
    /\ mode = "topics_batch"
    /\ pc = "et_ocr"
    /\ ocr.st = "ran"
    /\ ocr.tmp
    /\ handles = {<<idx, "doc">>}
    /\ \A i \in 1..Len(all_results) : all_results[i].src # idx
    /\ Len(inventory) = idx - 1

\* extract_topics: two topics that start on the same image page; the run
\* made for the first gave text, the run made for the second timed out
SamePageTwoRunsReached ==
    /\ mode = "topics_batch"
    /\ pc = "done"
    /\ cur = <<ListPage, TwoThin, FillPage>>
    /\ ocr.log = <<[k |-> 1, pg |-> 1, out |-> "text"], [k |-> 2, pg |-> 1, out |-> "timeout"]>>
    /\ results[1].content = <<"ocr">>
    /\ results[2].content = <<"", "text">>

\* C21: a document of the review pipeline is failed for having no listing
\* only if the bare scan of the whole document finds no entry either.
C21_NoListingOnlyAfterBareScan ==
    (mode = "review" /\ pc = "done" /\ "no problem list" \in Range(failed)) =>
        _problems_bare(cur) = <<>>

\* the same for the documents that are not standard and not card documents
NoListingAfterBareScanElsewhere ==
    (/\ mode = "review" /\ pc = "done" /\ "no problem list" \in Range(failed)
     /\ detect_format(cur) \notin {"standard", "menti"}) =>
        _problems_bare(cur) = <<>>

\* an inline document failed for having no listing
InlineNoListingReached ==
    /\ mode = "review"
    /\ pc = "done"
    /\ "no problem list" \in Range(failed)
    /\ detect_format(cur) = "inline"

\* the strategy `name` has returned the listing of doc
ListedBy(name) == mode = "listing" /\ pc = "l_ret" /\ calls = {name}

\* the numbered lines of page p after a select line and before every intent
\* label that follows a select line
InlineLines(p) ==
    LET after(li) == \E x \in Range(p.ents) : x.kind = "sel" /\ x.li < li
    IN  {e \in Range(p.ents) :
            /\ e.kind = "item"
            /\ after(e.li)
            /\ \A x \in Range(p.ents) :
                  (x.kw = "intent" /\ after(x.li)) => e.li < x.li}

\* the inline listing of doc, `bare` being the listing of the bare scan
InlineOrBare(bare) ==
    IF InlineLines(doc[1]) # {}
    THEN /\ problems # <<>>
         /\ \A i \in 1..Len(problems) :
               \E e \in InlineLines(doc[1]) : problems[i] = Prob(e.num, e.tp)
         /\ \A i \in 1..(Len(problems) - 1) :
               problems[i + 1].num = problems[i].num + 1
    ELSE problems = bare

\* C22: the inline listing holds only numbered lines of page 0 between the
\* select line and the first intent label, each number the one before + 1;
\* when there is no such line the listing is that of the bare scan (of the
\* same script: extract_topics falls back to its own bare scan).
C22_InlineListing ==
    /\ ListedBy("_problems_inline") => InlineOrBare(_problems_bare(doc))
    /\ (ListedBy("extract_problem_list") /\ detect_pdf_format(doc) = "inline")
          => InlineOrBare(_extract_bare_problems(doc))

\* the line before the select line and the line after the gap are left out
C22_Witness ==
    /\ ListedBy("_problems_inline")
    /\ doc[1] = InlineGap
    /\ problems = <<Prob(1, 1)>>

\* the listing of the bare scan is returned for a page without a line in the
\* window
InlineFallbackReached ==
    /\ ListedBy("_problems_inline")
    /\ doc[1] = InlineLate
    /\ problems = <<Prob(1, 1)>>

\* extract_topics: an inline document without a line in the window, listed
\* by the bare scan from a line whose only keyword is '관리', which the
\* bare scan of split_and_ocr does not list
SubjectOnlyListedReached ==
    /\ ListedBy("extract_problem_list")
    /\ doc = <<SelIntent, SubjectPage>>
    /\ problems = <<Prob(3, 3)>>
    /\ _problems_bare(doc) = <<>>

\* the listing holds x, and x is the first of the candidates cands (in page
\* order) with its number
FirstOfItsNumber(x, cands) ==
    \E i \in 1..Len(cands) :
        /\ Prob(cands[i].num, cands[i].tp) = x
        /\ \A j \in 1..(i - 1) : cands[j].num # x.num

\* the listing is that of the candidates: strictly ascending numbers, each
\* number of a candidate once, with the title of its first candidate
DedupedAndSorted(cands) ==
    /\ \A i \in 1..(Len(problems) - 1) : problems[i].num < problems[i + 1].num
    /\ \A i \in 1..Len(problems) : FirstOfItsNumber(problems[i], cands)
    /\ \A i \in 1..Len(cands) : cands[i].num \in pnums(problems)

\* C23: the card listing and the bare listing hold each topic number at most
\* once, with the title of its first match in page order, and are sorted by
\* strictly ascending number.
C23_ListingDedupedAndSorted ==
    /\ ListedBy("_problems_menti") => DedupedAndSorted(menti_listed(doc, 0))
    /\ ListedBy("_problems_bare") => DedupedAndSorted(bare_cands(doc, 0))

\* cards 2 and 1 on the first page, 1 and 2 again on the second: the listing
\* is sorted and has the titles of the first page
C23_Witness ==
    /\ ListedBy("_problems_menti")
    /\ doc = <<CardBack, CardFront>>
    /\ problems = <<Prob(1, 2), Prob(2, 1)>>

\* topic 2, then topic 1 under two titles: the bare listing is sorted and has
\* the first title of topic 1
BareDedupedReached ==
    /\ ListedBy("_problems_bare")
    /\ doc = <<StrongPage(2), Retitled, StrongPage(1)>>
    /\ problems = <<Prob(1, 2), Prob(2, 2)>>

\* a line whose title has three characters is no match of the bare scan:
\* topic 1 is listed under the title of the next page
ShortTitleSkippedReached ==
    /\ ListedBy("_problems_bare")
    /\ doc = <<ShortTitled, StrongPage(1)>>
    /\ problems = <<Prob(1, 1)>>

\* a card line inside the match of the card before it is no match: the
\* listing takes topic 1 from the next page
CardRunReached ==
    /\ ListedBy("_problems_menti")
    /\ doc = <<CardRun, CardFront>>
    /\ problems = <<Prob(1, 1), Prob(2, 2)>>

\* an indented 출제의도 line does not end the match of card 1: the match runs
\* over the line of card 2, which is not listed
IndentedIntentRunsOnReached ==
    /\ ListedBy("_problems_menti")
    /\ doc = <<CardIndented>>
    /\ problems = <<Prob(1, 1)>>

\* '문 제' and '3. ' on two lines are a match, titled by the text that follows
SplitCardListedReached ==
    /\ ListedBy("_problems_menti")
    /\ doc = <<CardSplit>>
    /\ problems = <<Prob(3, OtherText)>>

\* find_boundaries (split_and_ocr) or find_topic_boundaries (extract_topics)
\* has returned; the format it saw
LocatorReturned == mode \in {"fb", "review", "topics"} /\ pc \in {"fb_ret", "tb_ret"}

LocatorFormat == IF mode = "topics" THEN detect_pdf_format(cur) ELSE detect_format(cur)

\* every boundary has a number of the listing passed in
NumbersFromListing ==
    \A i \in 1..Len(boundaries) : boundaries[i].num \in pnums(problems)

\* page 0 is skipped unless the document is inline or bare; in an inline or
\* bare document a numbered line of page 0 that is accepted, with no line of
\* its number on another page, gives a boundary on page 0
PageZeroByFormat ==
    /\ LocatorFormat \notin {"inline", "bare", "menti"} =>
          \A i \in 1..Len(boundaries) : boundaries[i].page_idx >= 1
    /\ LocatorFormat \in {"inline", "bare"} =>
          \A c \in Cands :
              (/\ c.page_idx = 0
               /\ accepts(c.score)
               /\ \A x \in Cands : x.num = c.num => x.page_idx = 0)
              => \E i \in 1..Len(boundaries) :
                    boundaries[i].num = c.num /\ boundaries[i].page_idx = 0

\* C24 as stated: every boundary find_boundaries returns has a number of the
\* listing; a standard document has no boundary on page 0, an inline or bare
\* document has page 0 scanned.
C24_BoundariesFromListing ==
    LocatorReturned => NumbersFromListing /\ PageZeroByFormat

\* C24 as the code has it: the numbers are those of the listing unless the
\* document is a card document, whose locator takes every card it finds.
C24_BoundariesFromListingUnlessCard ==
    LocatorReturned =>
        /\ LocatorFormat # "menti" => NumbersFromListing
        /\ PageZeroByFormat

\* a bare document with a boundary on page 0 and a numbered line whose number
\* the listing does not hold
C24_Witness ==
    /\ LocatorReturned
    /\ LocatorFormat = "bare"
    /\ \E i \in 1..Len(boundaries) : boundaries[i].page_idx = 0
    /\ \E pi \in 1..Len(cur) : \E e \in Range(cur[pi].ents) :
          e.kind = "item" /\ cur[pi].chars >= 30 /\ e.num \notin pnums(problems)

\* split_and_ocr: a card document whose boundary list holds a number that the
\* listing of the same document does not
CardOutsideListingReached ==
    /\ mode = "fb"
    /\ pc = "fb_ret"
    /\ problems = get_problem_list(cur)
    /\ ~NumbersFromListing

\* pages taken off the end of boundary i by the trim step
TrimmedBy(i) == NominalEnd(i) - boundaries[i].page_end

\* C25: after _set_page_ends / _assign_page_ends the end of a boundary is one
\* page below the computed end exactly when the computed end page carries the
\* listing marker and lies after the start page, and equal to it otherwise
\* (so one page at most is taken off, even when the page before carries the
\* marker too); the end is never below the start, and a boundary whose
\* computed range is one page keeps it.
C25_TrimOncePastStart ==
    FBReturned =>
        \A i \in 1..Len(boundaries) :
            /\ TrimmedBy(i) \in {0, 1}
            /\ TrimmedBy(i) = 1 <=>
                  /\ HasSelect(cur[NominalEnd(i) + 1])
                  /\ NominalEnd(i) > boundaries[i].page_idx
            /\ boundaries[i].page_end >= boundaries[i].page_idx
            /\ NominalEnd(i) = boundaries[i].page_idx => TrimmedBy(i) = 0

\* a boundary trimmed by one page whose new end page carries the listing
\* marker as well and lies after the start page, and a boundary of one page
\* that carries the marker
C25_Witness ==
    /\ FBReturned
    /\ \E i \in 1..Len(boundaries) :
          /\ TrimmedBy(i) = 1
          /\ HasSelect(cur[boundaries[i].page_end + 1])
          /\ boundaries[i].page_end > boundaries[i].page_idx
    /\ \E i \in 1..Len(boundaries) :
          /\ NominalEnd(i) = boundaries[i].page_idx
          /\ HasSelect(cur[NominalEnd(i) + 1])

\* the same in extract_topics
TrimOnceInTopicsReached ==
    /\ mode = "topics"
    /\ pc = "tb_ret"
    /\ \E i \in 1..Len(boundaries) :
          TrimmedBy(i) = 1 /\ HasSelect(cur[boundaries[i].page_end + 1])

\* split_exam.find_boundaries, source KPC, has returned
KReturned == source = "KPC" /\ pc = "xfb_ret"

\* the pages of the session on which a line matches question n
KPagesOf(n) ==
    {pi \in (sess.start + 1)..sess.end :
        pi < Len(doc) /\ \E e \in Range(doc[pi + 1].ents) :
                            kpc_match(doc[pi + 1], e) /\ e.num = n}

\* the questions of the completed listing that are matched in the session,
\* and the page of the first match
KFound == {n \in pnums(problems) : KPagesOf(n) # {}}

KStart(n) == CHOOSE pi \in KPagesOf(n) : \A x \in KPagesOf(n) : pi <= x

\* the line of the first match of question n
KLine(n) ==
    LET ls == {e.li : e \in {x \in Range(doc[KStart(n) + 1].ents) :
                                 kpc_match(doc[KStart(n) + 1], x) /\ x.num = n}}
    IN  CHOOSE l \in ls : \A x \in ls : l <= x

KEmitted(n) == \E i \in 1..Len(boundaries) : boundaries[i].num = n

\* C26: when two questions of a session are first matched on the same page,
\* both boundaries are returned and the earlier one ends on that page, as
\* _set_page_ends has it for the standard variant.
C26_ExamSamePageShared ==
    KReturned =>
        \A n, m \in KFound :
            (KStart(n) = KStart(m) /\ KLine(n) < KLine(m)) =>
                /\ KEmitted(m)
                /\ \E i \in 1..Len(boundaries) :
                      /\ boundaries[i].num = n
                      /\ boundaries[i].page_idx = KStart(n)
                      /\ boundaries[i].page_end = KStart(n)

\* what _assign_boundary_ends does instead: of the questions first matched
\* on one page the last one is returned, the others are not
ExamSamePageKeepsLast ==
    KReturned =>
        /\ \A n \in KFound :
              KEmitted(n) <=> \A m \in KFound :
                                 KStart(m) = KStart(n) => KLine(m) <= KLine(n)
        /\ \A i \in 1..Len(boundaries) : boundaries[i].num \in KFound

\* two questions matched on one page, the earlier one missing in the result
ExamSamePageDroppedReached ==
    /\ KReturned
    /\ \E n, m \in KFound :
          KStart(n) = KStart(m) /\ KLine(n) < KLine(m) /\ ~KEmitted(n) /\ KEmitted(m)

\* _sessions_by_header or _sessions_by_footer has returned
SessionsReturned ==
    /\ mode = "exam"
    /\ pc = "x_ret"
    /\ calls \subseteq {"_sessions_by_header", "_sessions_by_footer"}

SessionNumbersOnce ==
    \A i, j \in 1..Len(sessions) : i # j => sessions[i].session # sessions[j].session

ScopesPartition ==
    /\ \A i \in 1..Len(sessions) : sessions[i].start <= sessions[i].end
    /\ \A i, j \in 1..Len(sessions) :
          i # j => \A pg \in sessions[i].start..sessions[i].end :
                      pg \notin sessions[j].start..sessions[j].end

\* the sessions start in the order of their numbers
StartsInNumberOrder ==
    \A i, j \in 1..Len(sessions) :
        sessions[i].session < sessions[j].session => sessions[i].start < sessions[j].start

\* C27: the scopes that session segmentation returns hold each session
\* number once, have start <= end, and no page lies in two of them, whatever
\* the order of the session headers in the pages.
C27_SessionsPartition ==
    SessionsReturned => SessionNumbersOnce /\ ScopesPartition

\* what holds: the numbers are there once and ascend; the scopes partition
\* when the sessions start in the order of their numbers
SessionsPartitionInOrder ==
    SessionsReturned =>
        /\ SessionNumbersOnce
        /\ \A i \in 1..(Len(sessions) - 1) : sessions[i].session < sessions[i + 1].session
        /\ StartsInNumberOrder => ScopesPartition

\* headers out of numeric order: a scope that ends before it starts, and two
\* scopes that share a page
EmptyScopeReached ==
    /\ SessionsReturned
    /\ \E i \in 1..Len(sessions) : sessions[i].end < sessions[i].start

OverlapReached ==
    /\ SessionsReturned
    /\ \E i, j \in 1..Len(sessions) :
          /\ i # j
          /\ sessions[i].start <= sessions[i].end
          /\ sessions[j].start \in sessions[i].start..sessions[i].end

\* '0교시' on the first page starts session 0
FooterZeroReached ==
    /\ mode = "exam"
    /\ pc = "x_ret"
    /\ calls = {"_sessions_by_footer"}
    /\ doc[1] = FooterPage(0)
    /\ sessions[1] = [session |-> 0, start |-> 0, end |-> sessions[1].end]

\* three sessions in numeric order, partitioned
InOrderReached ==
    /\ SessionsReturned
    /\ Len(sessions) = 3
    /\ StartsInNumberOrder
    /\ ScopesPartition

\* scan_dongkihoe_all has returned
ScanReturned == mode = "exam" /\ pc = "x_ret" /\ calls = {"scan_dongkihoe_all"}

\* the 'session N / question M' of the page of boundary b and the session of
\* its page header (-1: none within the first 80 characters)
EmbeddedN(b) == first_embedded(doc[b.page_idx + 1]).num

EmbeddedM(b) == next_line(doc[b.page_idx + 1], first_embedded(doc[b.page_idx + 1])).num

HeaderOf(b) == header_session(doc[b.page_idx + 1])

\* question q is one of session s: 1..13 for session 1, 1..6 for 2, 3, 4
ValidPair(s, q) == s \in 1..4 /\ q >= 1 /\ q <= MAX_Q(s, 0)

\* C29 as stated: a boundary whose embedded question number exceeds the
\* maximum of its embedded session is grouped under the session of the page
\* header, and every boundary carries a valid (session, question) pair.
C29_OutOfRangeTakesHeader ==
    ScanReturned =>
        \A i \in 1..Len(boundaries) :
            LET b == boundaries[i]
            IN  /\ EmbeddedM(b) > MAX_Q(EmbeddedN(b), 6) => b.detected_session = HeaderOf(b)
                /\ ValidPair(b.detected_session, b.num)

\* C29 as the code has it: the boundary goes under the header's session only
\* when the page has a header session and the question number does not exceed
\* that session's maximum; otherwise it stays under the embedded session.
\* So a pair is valid whenever the embedded session or the header session is
\* one of 1..4 that has the question number.
C29_HeaderOnlyWhenItFits ==
    ScanReturned =>
        \A i \in 1..Len(boundaries) :
            LET b == boundaries[i]
                n == EmbeddedN(b)
                q == EmbeddedM(b)
                h == HeaderOf(b)
            IN  /\ embedded(doc[b.page_idx + 1]) # {}
                /\ b.num = q
                /\ b.detected_session \in {n, h}
                /\ (q > MAX_Q(n, 6) /\ h # -1 /\ q <= MAX_Q(h, 13)) => b.detected_session = h
                /\ b.detected_session # n => (q > MAX_Q(n, 6) /\ q <= MAX_Q(h, 13))
                /\ (ValidPair(n, q) \/ (n \in 1..4 /\ ValidPair(h, q)))
                      => ValidPair(b.detected_session, b.num)

\* a boundary regrouped under the session of its page header
C29_Witness ==
    /\ ScanReturned
    /\ \E i \in 1..Len(boundaries) :
          /\ EmbeddedM(boundaries[i]) > MAX_Q(EmbeddedN(boundaries[i]), 6)
          /\ boundaries[i].detected_session = HeaderOf(boundaries[i])
          /\ boundaries[i].detected_session # EmbeddedN(boundaries[i])
          /\ ValidPair(boundaries[i].detected_session, boundaries[i].num)

\* a boundary regrouped under the session 0 of the page header '0교시'
HeaderZeroReached ==
    /\ ScanReturned
    /\ \E i \in 1..Len(boundaries) :
          /\ EmbeddedN(boundaries[i]) = 2
          /\ HeaderOf(boundaries[i]) = 0
          /\ boundaries[i].detected_session = 0

\* a boundary returned with a question number its session does not have,
\* on a page with a header session
OutOfRangeKeptReached ==
    /\ ScanReturned
    /\ \E i \in 1..Len(boundaries) :
          /\ boundaries[i].detected_session \in 2..4
          /\ boundaries[i].num > 6
          /\ HeaderOf(boundaries[i]) \notin {-1, EmbeddedN(boundaries[i])}

\* a page header beyond the first 80 characters is not seen: question 7
\* stays under session 2
PushedHeaderReached ==
    /\ ScanReturned
    /\ doc = <<PushedQuestion>>
    /\ Len(boundaries) = 1
    /\ boundaries[1].detected_session = 2
    /\ boundaries[1].num = 7

\* a line of page pi matches a question of the completed listing
KMatchOn(pi) ==
    \E e \in Range(doc[pi + 1].ents) :
        kpc_match(doc[pi + 1], e) /\ e.num \in pnums(problems)

\* split_exam.find_boundaries is past the completion of the listing
ListingCompleted == pc \in {"k_scan", "i_scan", "xfb_ret"}

\* the entries of the listing find_boundaries was called with: the listing
\* of the call on its own, in run_pipeline what extract_problem_list gave
PassedListing ==
    IF mode = "exam_fb" THEN UNION {Range(l) : l \in KListings}
    ELSE Range(extract_session_list(doc, sess))

\* C28: the boundaries split_exam.find_boundaries returns for a session
\* (source KPC, ITPE or any other) start after the session's start page and
\* end on or before its end page, and the numbers searched hold 1..13 for
\* session 1 and 1..6 for another session, whatever listing was passed in; a
\* number the listing lacked has the placeholder title, and in run_pipeline an
\* empty listing is searched as the placeholders of the whole range.
C28_ConfinedToSession ==
    ListingCompleted =>
        /\ expected_nums(sess) \subseteq pnums(problems)
        /\ sess.session = 1 => 1..13 \subseteq pnums(problems)
        /\ sess.session # 1 => 1..6 \subseteq pnums(problems)
        /\ \A i \in 1..Len(problems) :
              problems[i].tp = -1 \/ problems[i] \in PassedListing
        /\ (InExamPipeline /\ extract_session_list(doc, sess) = <<>>) =>
              problems = [n \in 1..(IF sess.session = 1 THEN 13 ELSE 6) |-> Prob(n, -1)]
        /\ \A i \in 1..Len(boundaries) :
              /\ boundaries[i].page_idx > sess.start
              /\ boundaries[i].page_idx <= sess.end
              /\ boundaries[i].num \in pnums(problems)
              /\ pc = "xfb_ret" => boundaries[i].page_end <= sess.end

\* run_pipeline, session 1 of an ITPE file with no listing on its start
\* page: 13 placeholder entries are searched; a question is found inside the
\* scope while a page after its end holds a matching line as well
C28_Witness ==
    /\ mode = "exam_run"
    /\ source = "ITPE"
    /\ pc = "xfb_ret"
    /\ sess.session = 1
    /\ Len(problems) = 13
    /\ \A i \in 1..Len(problems) : problems[i].tp = -1
    /\ boundaries # <<>>
    /\ \E pi \in (sess.end + 1)..(Len(doc) - 1) : itpe_best(doc[pi + 1], problems) # 0

\* the same for a call with source KPC and an empty listing, the session's
\* start page and a page after its end holding matching lines
KpcConfinedReached ==
    /\ KReturned
    /\ mode = "exam_fb"
    /\ sess.session = 1
    /\ Len(problems) = 13
    /\ \A i \in 1..Len(problems) : problems[i].tp = -1
    /\ boundaries # <<>>
    /\ KMatchOn(sess.start)
    /\ sess.end + 1 < Len(doc)
    /\ KMatchOn(sess.end + 1)

\* find_boundaries of split_and_ocr has returned for a bare or inline
\* document whose listing is the one the bare scan gives
BareListed ==
    /\ mode \in {"fb", "review"}
    /\ pc = "fb_ret"
    /\ detect_format(cur) \in {"bare", "inline"}
    /\ problems = _problems_bare(cur)

\* C30: for a bare document, and an inline one listed by the bare scan, the
\* numbers of the boundaries are the numbers of the listing: every number
\* of the listing has a scanned line of score >= 3 among the first 8 lines of
\* a page, and a listing that is not empty gives boundaries.
C30_BareListingResolved ==
    BareListed =>
        /\ {boundaries[i].num : i \in 1..Len(boundaries)} = pnums(problems)
        /\ \A n \in pnums(problems) :
              \E c \in Cands : c.num = n /\ c.line_idx < 8 /\ accepts(c.score)
        /\ problems # <<>> => boundaries # <<>>

\* a bare document whose listing has a number from a line of score 3, the
\* lowest score that is accepted, and that line is the boundary
C30_Witness ==
    /\ BareListed
    /\ detect_format(cur) = "bare"
    /\ \E i \in 1..Len(boundaries) :
          /\ boundaries[i].score = MinScore
          /\ boundaries[i].line_idx = 7
          /\ boundaries[i].page_idx = 0

\* the boundary of a listed number lies on a later page than the line that
\* put the number into the listing; an inline document listed by the bare scan
BareReplacedReached ==
    /\ BareListed
    /\ \E i \in 1..Len(boundaries) :
          /\ boundaries[i].num = 1
          /\ boundaries[i].page_idx > 0
          /\ cur[1] = KeywordPage

InlineBareResolvedReached ==
    /\ BareListed
    /\ detect_format(cur) = "inline"
    /\ boundaries # <<>>
====
